---- MODULE Spec2Model ----
(***************************************************************************)
(* EduSolo backend: the layered-soil stress and primary-consolidation      *)
(* chain (tensoes_geoestaticas, acrescimo_tensoes, recalque_adensamento,   *)
(* tempo_adensamento) and the endpoints of main.py that call it.           *)
(*                                                                         *)
(* Every operation is a pure request/response function.  The state is the  *)
(* request being served and the response computed for it.                  *)
(*                                                                         *)
(* Numbers.  Python floats are modelled in fixed point:                    *)
(*   - geostatic depths in units of 1e-5 m, unit weights in kN/m3, hence   *)
(*     stresses in units of 1e-5 kPa; round(x, 4) is Round4;               *)
(*   - Ko in tenths.                                                       *)
(* Optional[T] is a sequence of length 0 (None) or 1 (a value).            *)
(***************************************************************************)
EXTENDS Integers, Sequences, FiniteSets, TLC

VARIABLES op, req, res

vars == <<op, req, res>>

\* ------------------------------------------------------------ Optional, numbers

None == <<>>

Some(v) == <<v>>

IsNone(o) == o = <<>>

Val(o) == o[1]

Abs(x) == IF x < 0 THEN -x ELSE x

Max(a, b) == IF a >= b THEN a ELSE b

Min(a, b) == IF a <= b THEN a ELSE b

\* n/d rounded to the nearest integer, ties to even (d > 0): Python's round()
RoundDiv(n, d) ==
    LET q == n \div d
        r == n % d
    IN  IF 2 * r < d THEN q
        ELSE IF 2 * r > d THEN q + 1
        ELSE IF q % 2 = 0 THEN q ELSE q + 1

\* round(x, 4) of a value held in units of 1e-5
Round4(x) == 10 * RoundDiv(x, 10)

\* np.isclose(a, b): |a - b| <= atol + rtol * |b|, atol = 1e-8, rtol = 1e-5,
\* for lengths a, b in units of 1e-5 m (both sides multiplied by 1e10)
IsClose(a, b) ==
    LET d == Abs(a - b)
    IN  d <= 1000 /\ 100000 * d <= 100 + Abs(b)

\* ------------------------------------------------------------ tensoes_geoestaticas

\* models.TensaoPonto
TensaoPonto(prof, sv, u, sev, seh) ==
    [profundidade |-> prof, tensao_total_vertical |-> sv, pressao_neutra |-> u,
     tensao_efetiva_vertical |-> sev, tensao_efetiva_horizontal |-> seh]

\* sigma * Ko for Ko held in tenths (unrounded product, to the model's grid)
VezesKo(sigma, Ko) == RoundDiv(sigma * Ko, 10)

\* round(sigma * Ko, 4)
VezesKoRound4(sigma, Ko) == 10 * RoundDiv(sigma * Ko, 100)

\* lines 27-34: pore pressure of the surface point
UInicial(dados) ==
    IF dados.profundidade_na <= 0 /\ dados.altura_capilar > 0
    THEN -(dados.altura_capilar * dados.peso_especifico_agua)
    ELSE 0

\* lines 37-46: the surface point (values not rounded)
PontoInicial(dados) ==
    LET u == UInicial(dados)
        sev == 0 - u
    IN  TensaoPonto(0, 0, u, sev, VezesKo(sev, dados.camadas[1].Ko))

\* mutant: suction extended above the capillary fringe (the else branch forgotten)
PressaoNeutraBase_SemLimiteCapilar(z_base, dados) ==
    (z_base - dados.profundidade_na) * dados.peso_especifico_agua

\* lines 102-111: pore pressure at the base of a layer
PressaoNeutraBase(z_base, dados) ==
    LET distancia_vertical_na == z_base - dados.profundidade_na
    IN  IF distancia_vertical_na >= 0
        THEN distancia_vertical_na * dados.peso_especifico_agua
        ELSE IF Abs(distancia_vertical_na) <= dados.altura_capilar
        THEN distancia_vertical_na * dados.peso_especifico_agua
        ELSE 0

\* lines 113-119: effective stress, limited to zero when negative
\* (sigma - u < -1e-9 is sigma - u < 0 on the model's grid)
EfetivaBase(tensao_total, pressao_neutra) ==
    IF tensao_total - pressao_neutra < 0 THEN 0 ELSE tensao_total - pressao_neutra

\* lines 124-130: the point at the base of a layer
PontoBase(z_base, tensao_total, camada, dados) ==
    LET u == PressaoNeutraBase(z_base, dados)
        sev == EfetivaBase(tensao_total, u)
    IN  TensaoPonto(Round4(z_base), Round4(tensao_total), Round4(u), Round4(sev),
                    VezesKoRound4(sev, camada.Ko))

\* lines 83-95: the point at the water table inside a layer
PontoNA(tensao_total_na_interface, camada, dados) ==
    TensaoPonto(dados.profundidade_na, Round4(tensao_total_na_interface), Round4(0),
                Round4(tensao_total_na_interface - 0),
                VezesKoRound4(tensao_total_na_interface - 0, camada.Ko))

\* mutant: the water-table point is never added
JaTemPontoNoNA_Sempre(pontos, dados) == TRUE

\* line 88: any(np.isclose(p.profundidade, NA) for p in pontos_calculo)
JaTemPontoNoNA(pontos, dados) ==
    \E k \in 1..Len(pontos) : IsClose(pontos[k].profundidade, dados.profundidade_na)

\* lines 49-132: one iteration of the loop over the layers.  st is
\* [pontos, profundidade_atual, tensao_total_atual, erro]
ProcessarCamada(st, camada, dados) ==
    LET z_topo == st.profundidade_atual
        z_base == st.profundidade_atual + camada.espessura
        na == dados.profundidade_na
        falha(msg) == [st EXCEPT !.erro = Some(msg)]
        segue(pontos, tensao) ==
            [pontos |-> Append(pontos, PontoBase(z_base, tensao, camada, dados)),
             profundidade_atual |-> z_base,
             tensao_total_atual |-> tensao,
             erro |-> None]
    IN  IF z_base <= na
        THEN IF IsNone(camada.gama_nat)
             THEN falha("gama_nat nao definido: camada acima do NA")
             ELSE segue(st.pontos,
                        st.tensao_total_atual + Val(camada.gama_nat) * camada.espessura)
        ELSE IF z_topo >= na
        THEN IF IsNone(camada.gama_sat)
             THEN falha("gama_sat nao definido: camada abaixo do NA")
             ELSE segue(st.pontos,
                        st.tensao_total_atual + Val(camada.gama_sat) * camada.espessura)
        ELSE IF IsNone(camada.gama_nat)
             THEN falha("gama_nat nao definido: camada atravessada pelo NA")
             ELSE IF IsNone(camada.gama_sat)
             THEN falha("gama_sat nao definido: camada atravessada pelo NA")
             ELSE LET tensao_total_na_interface ==
                          st.tensao_total_atual + Val(camada.gama_nat) * (na - z_topo)
                      pontos == IF JaTemPontoNoNA(st.pontos, dados)
                                THEN st.pontos
                                ELSE Append(st.pontos,
                                            PontoNA(tensao_total_na_interface, camada, dados))
                  IN  segue(pontos,
                            tensao_total_na_interface + Val(camada.gama_sat) * (z_base - na))

RECURSIVE ProcessarCamadas(_, _, _)
\* line 49: for i, camada in enumerate(dados.camadas); a raise leaves the loop
ProcessarCamadas(st, i, dados) ==
    IF i > Len(dados.camadas) \/ ~IsNone(st.erro) THEN st
    ELSE ProcessarCamadas(ProcessarCamada(st, dados.camadas[i], dados), i + 1, dados)

RECURSIVE InserirOrdenado(_, _)
\* insertion after the elements with a depth <= p's: a stable sort step
InserirOrdenado(s, p) ==
    IF s = <<>> THEN <<p>>
    ELSE IF s[Len(s)].profundidade <= p.profundidade THEN Append(s, p)
    ELSE Append(InserirOrdenado(SubSeq(s, 1, Len(s) - 1), p), s[Len(s)])

RECURSIVE OrdenarPontos(_)
\* line 135: pontos_calculo.sort(key=lambda p: p.profundidade) (stable)
OrdenarPontos(s) ==
    IF s = <<>> THEN <<>>
    ELSE InserirOrdenado(OrdenarPontos(SubSeq(s, 1, Len(s) - 1)), s[Len(s)])

\* mutant: the duplicated depths are kept
PontosUnicos_SemRemocao(s, k, vistas) == s

RECURSIVE PontosUnicos(_, _, _)
\* lines 138-143: keeps the first point of each depth rounded to 4 places
PontosUnicos(s, k, vistas) ==
    IF k > Len(s) THEN <<>>
    ELSE IF Round4(s[k].profundidade) \in vistas
    THEN PontosUnicos(s, k + 1, vistas)
    ELSE <<s[k]>> \o PontosUnicos(s, k + 1, vistas \cup {Round4(s[k].profundidade)})

\* mutant: the points computed before the faulty layer are returned with the error
calcular_tensoes_geostaticas_PerfilParcial(dados) ==
    IF dados.camadas = <<>>
    THEN [pontos_calculo |-> <<>>, erro |-> Some("A lista de camadas nao pode estar vazia.")]
    ELSE LET st0 == [pontos |-> <<PontoInicial(dados)>>, profundidade_atual |-> 0,
                     tensao_total_atual |-> 0, erro |-> None]
             st == ProcessarCamadas(st0, 1, dados)
         IN  [pontos_calculo |-> PontosUnicos(OrdenarPontos(st.pontos), 1, {}),
              erro |-> st.erro]

\* lines 6-152: calcular_tensoes_geostaticas
calcular_tensoes_geostaticas(dados) ==
    IF dados.camadas = <<>>
    THEN [pontos_calculo |-> <<>>, erro |-> Some("A lista de camadas nao pode estar vazia.")]
    ELSE LET st0 == [pontos |-> <<PontoInicial(dados)>>, profundidade_atual |-> 0,
                     tensao_total_atual |-> 0, erro |-> None]
             st == ProcessarCamadas(st0, 1, dados)
         IN  IF ~IsNone(st.erro)
             THEN [pontos_calculo |-> <<>>, erro |-> st.erro]
             ELSE [pontos_calculo |-> PontosUnicos(OrdenarPontos(st.pontos), 1, {}),
                   erro |-> None]

\* ------------------------------------------------------------ acrescimo_tensoes
\* Lengths are integers in units of 1e-5, loads in the matching force unit, so that
\* stresses come out in the caller's stress unit and EPSILON = 1e-9 lies strictly
\* between 0 and 1 length unit: z <= EPSILON is z <= 0, and a squared length is
\* <= EPSILON iff it is <= 10 units.  Results are held in units of 1e-4 (the 4
\* places of the final round()); factors are carried to 1e-6.

\* EPSILON = 1e-9 (line 11) as a squared length, in units of 1e-10
EPSILON_AREA == 10

\* a float result: a number or NaN
Num(v) == [nan |-> FALSE, v |-> v]

NaN == [nan |-> TRUE, v |-> 0]

RECURSIVE RaizEntre(_, _, _)
\* the largest s in lo..hi with s * s <= n
RaizEntre(n, lo, hi) ==
    IF lo >= hi THEN lo
    ELSE LET mid == (lo + hi + 1) \div 2
         IN  IF mid * mid <= n THEN RaizEntre(n, mid, hi) ELSE RaizEntre(n, lo, mid - 1)

\* floor(sqrt(n)), 0 <= n < 2^31: np.sqrt and x**0.5 on the model's grid
ISqrt(n) == RaizEntre(n, 0, 46340)

\* lines 15-23: Boussinesq, point load.  delta = 3 P z^3 / (2 pi d^2.5) with
\* d = r^2 + z^2, computed as (P / z^2) * 3/(2 pi) * (z^2/d)^2.5
calcular_acrescimo_boussinesq_pontual(carga, ponto) ==
    LET z == ponto.z
        r_quadrado == (ponto.x - carga.x) * (ponto.x - carga.x)
                      + (ponto.y - carga.y) * (ponto.y - carga.y)
        denominador_raiz == r_quadrado + z * z
        c4 == (z * z * 10000) \div denominador_raiz
        raiz_c4 == ISqrt(c4 * 10000)
        c25 == (((c4 * c4) \div 10000) * raiz_c4) \div 10000
        fator4 == (c25 * 30000) \div 62832
    IN  IF denominador_raiz <= EPSILON_AREA THEN NaN
        ELSE Num(RoundDiv(carga.P * fator4, z * z))

\* arctan(n/d) in units of 1e-4 rad, d > 0, to within 0.0015 rad:
\* for |u| <= 1, (pi/4) u - u (|u| - 1) (0.2447 + 0.0663 |u|); else pi/2 - arctan(1/u)
ArcTanFrac(n, d) ==
    LET a == Abs(n)
        poly(u4) == (7854 * u4) \div 10000
                    + (((u4 * (10000 - u4)) \div 10000) * (2447 + (663 * u4) \div 10000))
                      \div 10000
        pos == IF a <= d THEN poly((a * 10000) \div d)
               ELSE 15708 - poly((d * 10000) \div a)
    IN  IF n < 0 THEN -pos ELSE pos

\* u / (1 + u^2) for u = n/d, in units of 1e-4: sin(2 arctan u) / 2
MeioSenoDuplo(n, d) == RoundDiv(n * d * 10000, n * n + d * d)

\* lines 25-71: Carothers, strip load.  With alpha1, alpha2 the edge angles,
\* sin(alpha1 - alpha2) cos(alpha1 + alpha2) = (sin 2 alpha1 - sin 2 alpha2) / 2;
\* PI is taken as 355/113
calcular_acrescimo_carothers_faixa(carga, ponto) ==
    LET p == carga.intensidade
        b == carga.largura
        x == ponto.x
        z == ponto.z
        alpha1 == ArcTanFrac(b - 2 * x, 2 * z)
        alpha2 == ArcTanFrac(-b - 2 * x, 2 * z)
        delta_alpha == alpha1 - alpha2
        seno_cosseno == MeioSenoDuplo(b - 2 * x, 2 * z) - MeioSenoDuplo(-b - 2 * x, 2 * z)
    IN  IF z <= 0
        THEN Num(IF 2 * Abs(x) < b THEN p * 10000 ELSE 0)
        ELSE Num(RoundDiv(p * (delta_alpha + seno_cosseno) * 113, 355))

\* lines 74-103: Love, under the centre of a circular load (closed form)
calcular_acrescimo_love_circular_centro(carga, ponto) ==
    LET p == carga.intensidade
        R == carga.raio
        z == ponto.z
        soma == z * z + R * R
        termo_base6 == (z * z * 1000000) \div soma
        termo_15 == (termo_base6 * ISqrt(termo_base6)) \div 1000
        quase_zero == \/ soma \div (z * z) > 1000000000
                      \/ soma \div (z * z) = 1000000000 /\ soma % (z * z) > 0
    IN  IF z <= 0 THEN Num(p * 10000)
        ELSE IF R <= 0 THEN Num(0)
        ELSE IF quase_zero THEN Num(p * 10000)
        ELSE Num(RoundDiv(p * (1000000 - termo_15), 100))

\* lines 124-131: abaco_data, keyed by 2 z/R; the factors in hundredths
AbacoChaves == <<1, 2, 3, 4, 6>>

AbacoData ==
    [k \in {1, 2, 3, 4, 6} |->
        CASE k = 1 -> <<91, 85, 75, 50, 23, 10>>
          [] k = 2 -> <<65, 60, 52, 37, 22, 12>>
          [] k = 3 -> <<42, 40, 36, 29, 20, 13>>
          [] k = 4 -> <<29, 28, 26, 22, 17, 12>>
          [] k = 6 -> <<14, 14, 13, 12, 10, 8>>]

\* the r/R of the columns of abaco_data, in thousandths
AbacoRR == <<0, 500, 750, 1000, 1250, 1500>>

\* line 136: max([k for k in z_R_keys if k <= z_R], default=min(z_R_keys))
ZRInf(z, R) ==
    LET abaixo == {k \in DOMAIN AbacoData : k * R <= 2 * z}
    IN  IF abaixo = {} THEN AbacoChaves[1]
        ELSE CHOOSE k \in abaixo : \A j \in abaixo : j <= k

\* mutant: below the first key the first two curves are extended downwards
ZRSup_Extrapola(z, R) ==
    LET acima == {k \in DOMAIN AbacoData : k * R >= 2 * z}
    IN  IF 2 * z < AbacoChaves[1] * R THEN AbacoChaves[2]
        ELSE IF acima = {} THEN AbacoChaves[Len(AbacoChaves)]
        ELSE CHOOSE k \in acima : \A j \in acima : j >= k

\* line 137: min([k for k in z_R_keys if k >= z_R], default=max(z_R_keys))
ZRSup(z, R) ==
    LET acima == {k \in DOMAIN AbacoData : k * R >= 2 * z}
    IN  IF acima = {} THEN AbacoChaves[Len(AbacoChaves)]
        ELSE CHOOSE k \in acima : \A j \in acima : j >= k

\* lines 139-156: the curve (factors in 1e-6) for z/R, interpolated between the
\* two bracketing curves of the chart
CurvaAbaco(z, R) ==
    LET z_R_inf == ZRInf(z, R)
        z_R_sup == ZRSup(z, R)
        curva_inf == AbacoData[z_R_inf]
        curva_sup == AbacoData[z_R_sup]
        num == 2 * z - z_R_inf * R
        den == (z_R_sup - z_R_inf) * R
    IN  IF z_R_inf = z_R_sup
        THEN [i \in 1..Len(curva_inf) |-> curva_inf[i] * 10000]
        ELSE [i \in 1..Len(curva_inf) |->
                 RoundDiv((curva_inf[i] * (den - num) + curva_sup[i] * num) * 10000, den)]

\* line 168: np.interp(r_R, r_R_vals, sigma_p_vals) for r_R strictly inside the
\* table; r_milli is 1000 r, the result a factor in 1e-6
InterpRR(curva, r_milli, R) ==
    LET i == CHOOSE j \in 1..(Len(AbacoRR) - 1) :
                 AbacoRR[j] * R <= r_milli /\ r_milli <= AbacoRR[j + 1] * R
    IN  curva[i] + RoundDiv((r_milli - AbacoRR[i] * R) * (curva[i + 1] - curva[i]),
                            (AbacoRR[i + 1] - AbacoRR[i]) * R)

\* lines 106-173: Love's chart for a circular load.  r is measured from the origin
\* (line 114), not from the centre of the load
calcular_acrescimo_love_circular_abaco(carga, ponto) ==
    LET p == carga.intensidade
        R == carga.raio
        z == ponto.z
        r_milli == ISqrt((ponto.x * ponto.x + ponto.y * ponto.y) * 1000000)
        curva == CurvaAbaco(z, R)
        fator == IF r_milli >= AbacoRR[Len(AbacoRR)] * R THEN curva[Len(curva)]
                 ELSE IF r_milli <= AbacoRR[1] * R THEN curva[1]
                 ELSE InterpRR(curva, r_milli, R)
        fator_I == IF fator < 0 THEN 0 ELSE fator
    IN  IF z <= 0
        THEN Num(IF r_milli < 1000 * R THEN p * 10000 ELSE 0)
        ELSE IF R <= 0 THEN Num(0)
        ELSE Num(RoundDiv(p * fator_I, 100))

\* line 183: dados.tipo_carga.lower(), on the strings the requests use
Lower(t) ==
    CASE t = "Pontual" -> "pontual"
      [] t = "FAIXA" -> "faixa"
      [] OTHER -> t

\* models.AcrescimoTensoesOutput
AcrescimoTensoesOutput(delta, metodo, erro) ==
    [delta_sigma_v |-> delta, metodo |-> metodo, erro |-> erro]

\* mutant: the undefined value returned next to its error message
ProcessarResultado_ValorComErro(delta_sigma, metodo) ==
    IF delta_sigma.nan
    THEN AcrescimoTensoesOutput(Some(delta_sigma.v), Some(metodo),
             Some("Calculo resultou em valor indefinido (NaN). Verifique os dados."))
    ELSE AcrescimoTensoesOutput(Some(delta_sigma.v), Some(metodo), None)

\* lines 221-230: the result of the calculation
ProcessarResultado(delta_sigma, metodo) ==
    IF delta_sigma.nan
    THEN AcrescimoTensoesOutput(None, Some(metodo),
             Some("Calculo resultou em valor indefinido (NaN). Verifique os dados."))
    ELSE AcrescimoTensoesOutput(Some(delta_sigma.v), Some(metodo), None)

\* lines 177-237: calcular_acrescimo_tensoes
calcular_acrescimo_tensoes(dados) ==
    LET tipo == Lower(dados.tipo_carga)
        ponto == dados.ponto_interesse
        erro(msg) == AcrescimoTensoesOutput(None, None, Some(msg))
    IN  IF ponto.z <= 0
        THEN erro("Profundidade (z) do ponto de interesse deve ser maior que zero.")
        ELSE IF tipo = "pontual"
        THEN IF IsNone(dados.carga_pontual)
             THEN erro("Dados de 'carga_pontual' necessarios.")
             ELSE ProcessarResultado(
                      calcular_acrescimo_boussinesq_pontual(Val(dados.carga_pontual), ponto),
                      "Boussinesq (Pontual)")
        ELSE IF tipo = "faixa"
        THEN IF IsNone(dados.carga_faixa)
             THEN erro("Dados de 'carga_faixa' necessarios.")
             ELSE ProcessarResultado(
                      calcular_acrescimo_carothers_faixa(Val(dados.carga_faixa), ponto),
                      "Carothers (Faixa)")
        ELSE IF tipo = "circular"
        THEN IF IsNone(dados.carga_circular)
             THEN erro("Dados de 'carga_circular' necessarios.")
             ELSE ProcessarResultado(
                      calcular_acrescimo_love_circular_abaco(Val(dados.carga_circular), ponto),
                      "Love (Circular - Abaco)")
        ELSE erro("Tipo de carga nao suportado.")

\* FastAPI: a response with a body, or an HTTPException with a detail
Resposta(status, detail, body) == [status |-> status, detail |-> detail, body |-> body]

\* mutant: the check becomes 'at least one variant'
TiposCargaPresentes_AoMenosUm(dados_entrada) ==
    IF /\ IsNone(dados_entrada.carga_pontual)
       /\ IsNone(dados_entrada.carga_faixa)
       /\ IsNone(dados_entrada.carga_circular)
    THEN 0 ELSE 1

\* main.py lines 83-88: how many of the load variants are populated
TiposCargaPresentes(dados_entrada) ==
    (IF IsNone(dados_entrada.carga_pontual) THEN 0 ELSE 1)
    + (IF IsNone(dados_entrada.carga_faixa) THEN 0 ELSE 1)
    + (IF IsNone(dados_entrada.carga_circular) THEN 0 ELSE 1)

\* main.py lines 79-94: post_calcular_acrescimo_tensoes
post_calcular_acrescimo_tensoes(dados_entrada) ==
    IF TiposCargaPresentes(dados_entrada) # 1
    THEN Resposta(400, Some("Exatamente um tipo de dados de carga deve ser fornecido."), None)
    ELSE LET resultados == calcular_acrescimo_tensoes(dados_entrada)
         IN  IF ~IsNone(resultados.erro)
             THEN Resposta(400, resultados.erro, None)
             ELSE Resposta(200, None, Some(resultados))

\* ------------------------------------------------------------ logarithms
\* np.log10 in units of 1e-5, by the binary expansion of log2 (14 bits): accurate
\* to about 5e-5, exact for log10(1) = 0

RECURSIVE Expoente2(_, _, _)
\* the k with d * 2^k <= n < d * 2^(k+1), for n >= d > 0
Expoente2(n, d, k) == IF n < 2 * d THEN k ELSE Expoente2(n, 2 * d, k + 1)

RECURSIVE Potencia2(_)
Potencia2(k) == IF k = 0 THEN 1 ELSE 2 * Potencia2(k - 1)

RECURSIVE BitsLog2(_, _, _)
\* the fraction bits of log2(m / 16384), 16384 <= m < 32768, from bit i on
BitsLog2(m, i, acc) ==
    IF i > 14 THEN acc
    ELSE LET q == (m * m) \div 16384
         IN  IF q >= 32768
             THEN BitsLog2(q \div 2, i + 1, acc + 16384 \div Potencia2(i))
             ELSE BitsLog2(q, i + 1, acc)

\* log10(n / d) in units of 1e-5, for n >= d > 0 (log10(2) = 0.30103)
Log10Frac(n, d) ==
    LET k == Expoente2(n, d, 0)
        m == (n * 16384) \div (d * Potencia2(k))
    IN  k * 30103 + RoundDiv(BitsLog2(m, 1, 0) * 30103, 16384)

\* ------------------------------------------------------------ recalque_adensamento
\* Stresses are integers in units of EPSILON = 1e-9 (every formula reads them
\* through ratios and through the comparisons with EPSILON); e0 in tenths, Cc and
\* Cr in hundredths, the thickness in whole length units.  Strains are carried in
\* units of 1e-7.

\* line 6: EPSILON, in the unit of the stresses
EPSILON == 1

\* models.RecalqueAdensamentoOutput
RecalqueAdensamentoOutput(recalque, deformacao, tensao_final, estado, rpa, erro) ==
    [recalque_total_primario |-> recalque, deformacao_volumetrica |-> deformacao,
     tensao_efetiva_final |-> tensao_final, estado_adensamento |-> estado,
     RPA |-> rpa, erro |-> erro]

RecalqueErro(msg) == RecalqueAdensamentoOutput(None, None, None, None, None, Some(msg))

\* lines 54, 62, 76: (C / (1 + e0)) * log10(sigma_vf / sigma_v0), in 1e-7
DeformacaoUmTrecho(C, e0, sigma_v0, sigma_vf) ==
    RoundDiv(C * Log10Frac(sigma_vf, sigma_v0) * 10, 10 + e0)

\* mutant: the virgin branch measured from the initial stress, not from sigma_vm
DeformacaoDoisTrechos_DesdeInicial(Cr, Cc, e0, sigma_v0, sigma_vm, sigma_vf) ==
    RoundDiv((Cr * Log10Frac(sigma_vm, sigma_v0) + Cc * Log10Frac(sigma_vf, sigma_v0)) * 10,
             10 + e0)

\* mutant: beyond sigma_vm only the virgin compression, the recompression dropped
DeformacaoDoisTrechos_SoVirgem(Cr, Cc, e0, sigma_v0, sigma_vm, sigma_vf) ==
    RoundDiv(Cc * Log10Frac(sigma_vf, sigma_vm) * 10, 10 + e0)

\* lines 68-69: recompression up to sigma_vm plus virgin compression beyond it
DeformacaoDoisTrechos(Cr, Cc, e0, sigma_v0, sigma_vm, sigma_vf) ==
    RoundDiv((Cr * Log10Frac(sigma_vm, sigma_v0) + Cc * Log10Frac(sigma_vf, sigma_vm)) * 10,
             10 + e0)

\* line 51: abs(RPA - 1.0) < 0.1 as the floats decide it: RPA = 1.1 gives
\* 0.10000000000000009 (not below 0.1) and RPA = 0.9 gives 0.09999999999999998 (below)
RPAProximoDeUm(sigma_v0, sigma_vm) ==
    9 * sigma_v0 <= 10 * sigma_vm /\ 10 * sigma_vm < 11 * sigma_v0

\* lines 45-76: the state of consolidation and the strain (in 1e-7), or an error
EstadoEDeformacao(Cc, Cr, e0, sigma_v0, sigma_vm, sigma_vf) ==
    IF RPAProximoDeUm(sigma_v0, sigma_vm)
    THEN IF sigma_v0 <= EPSILON
         THEN [erro |-> Some("Tensao efetiva inicial nao pode ser zero para solo NA.")]
         ELSE [erro |-> None, estado |-> "Normalmente Adensado (RPA ~ 1)",
               epsilon_v |-> DeformacaoUmTrecho(Cc, e0, sigma_v0, sigma_vf)]
    ELSE IF sigma_vm > sigma_v0
    THEN IF sigma_vf <= sigma_vm
         THEN IF sigma_v0 <= EPSILON
              THEN [erro |-> Some("Tensao efetiva inicial nao pode ser zero.")]
              ELSE [erro |-> None, estado |-> "Pre-Adensado (RPA > 1)",
                    epsilon_v |-> DeformacaoUmTrecho(Cr, e0, sigma_v0, sigma_vf)]
         ELSE IF sigma_v0 <= EPSILON \/ sigma_vm <= EPSILON
              THEN [erro |-> Some("Tensoes inicial e de pre-adensamento devem ser maiores que zero.")]
              ELSE [erro |-> None, estado |-> "Pre-Adensado (RPA > 1)",
                    epsilon_v |-> DeformacaoDoisTrechos(Cr, Cc, e0, sigma_v0, sigma_vm, sigma_vf)]
    ELSE IF sigma_v0 <= EPSILON
         THEN [erro |-> Some("Tensao efetiva inicial nao pode ser zero.")]
         ELSE [erro |-> None,
               estado |-> "Sub-Adensado (RPA < 1) - Calculo como Normalmente Adensado",
               epsilon_v |-> DeformacaoUmTrecho(Cc, e0, sigma_v0, sigma_vf)]

\* mutant: Cr > Cc rejected as well
RecalqueValoresInvalidos_CrMaiorQueCc(dados) ==
    \/ dados.espessura_camada <= 0
    \/ dados.indice_vazios_inicial <= 0
    \/ dados.Cc <= 0
    \/ dados.Cr <= 0
    \/ dados.tensao_efetiva_inicial <= 0
    \/ dados.tensao_pre_adensamento <= 0
    \/ dados.acrescimo_tensao < 0
    \/ dados.Cr > dados.Cc

\* line 30: the basic validations
RecalqueValoresInvalidos(dados) ==
    \/ dados.espessura_camada <= 0
    \/ dados.indice_vazios_inicial <= 0
    \/ dados.Cc <= 0
    \/ dados.Cr <= 0
    \/ dados.tensao_efetiva_inicial <= 0
    \/ dados.tensao_pre_adensamento <= 0
    \/ dados.acrescimo_tensao < 0

\* lines 8-93: calcular_recalque_adensamento
calcular_recalque_adensamento(dados) ==
    LET H0 == dados.espessura_camada
        e0 == dados.indice_vazios_inicial
        sigma_v0_prime == dados.tensao_efetiva_inicial
        sigma_vm_prime == dados.tensao_pre_adensamento
        sigma_vf_prime == sigma_v0_prime + dados.acrescimo_tensao
        r == EstadoEDeformacao(dados.Cc, dados.Cr, e0, sigma_v0_prime, sigma_vm_prime,
                               sigma_vf_prime)
    IN  IF RecalqueValoresInvalidos(dados)
        THEN RecalqueErro("Valores de entrada invalidos.")
        ELSE IF 10 + e0 <= 0
        THEN RecalqueErro("Indice de vazios inicial (e0) invalido.")
        ELSE IF ~IsNone(r.erro)
        THEN RecalqueErro(Val(r.erro))
        ELSE RecalqueAdensamentoOutput(
                 Some(RoundDiv(r.epsilon_v * H0, 1000)),
                 Some(RoundDiv(r.epsilon_v, 100)),
                 Some(RoundDiv(sigma_vf_prime, 10000000)),
                 Some(r.estado),
                 Some(RoundDiv(sigma_vm_prime * 100, sigma_v0_prime)),
                 None)

\* ------------------------------------------------------------ tempo_adensamento
\* Degrees of consolidation are integers in units of 1e-3 % (so a fraction U in
\* units of 1e-5), time factors in units of 1e-6, input times in units of 1e-4,
\* the total settlement in units of 1e-5; Cv and Hd are whole numbers.  The
\* output is rounded as the code rounds it: time to 1e-3, settlement to 1e-4,
\* degree to 1e-2 %, time factor to 1e-4.

\* line 14: float('inf'), above every finite value of the model
INF == 2147483647

\* line 13: np.isclose(Uz_percent, 100.0), |Uz - 100| <= 1e-8 + 1e-5 * 100
\* (both sides multiplied by 1e8)
ProximoDeCem(Uz_percent) ==
    LET d == Abs(Uz_percent - 100000)
    IN  d <= 1000 /\ 100000 * d <= 1 + 100000

\* mutant: 100 % rejected like a degree above 100
calcular_Tv_de_Uz_CemInvalido(Uz_percent) ==
    IF Uz_percent < 0 \/ Uz_percent > 100000 THEN None
    ELSE IF ProximoDeCem(Uz_percent) THEN None
    ELSE IF Uz_percent <= 60000
    THEN LET h == Uz_percent \div 10
             r == Uz_percent % 10
             Uz2 == RoundDiv(h * h + RoundDiv(2 * h * r, 10), 10)
         IN  Some(RoundDiv(Uz2 * 355, 4520))
    ELSE Some(RoundDiv(933 * Log10Frac(100000, 100000 - Uz_percent), 100) - 85000)

\* mutant: 60 % computed by the upper regime
calcular_Tv_de_Uz_SessentaNoRegimeSuperior(Uz_percent) ==
    IF Uz_percent < 0 \/ Uz_percent > 100000 THEN None
    ELSE IF ProximoDeCem(Uz_percent) THEN Some(INF)
    ELSE IF Uz_percent < 60000
    THEN \* (PI / 4) * Uz^2, Uz^2 held in units of 1e-7
         LET h == Uz_percent \div 10
             r == Uz_percent % 10
             Uz2 == RoundDiv(h * h + RoundDiv(2 * h * r, 10), 10)
         IN  Some(RoundDiv(Uz2 * 355, 4520))
    ELSE \* -0.933 * log10(1 - Uz) - 0.085
         Some(RoundDiv(933 * Log10Frac(100000, 100000 - Uz_percent), 100) - 85000)

\* lines 9-21: Tv from Uz; None, or Some(Tv) with Tv = INF at 100 %
calcular_Tv_de_Uz(Uz_percent) ==
    IF Uz_percent < 0 \/ Uz_percent > 100000 THEN None
    ELSE IF ProximoDeCem(Uz_percent) THEN Some(INF)
    ELSE IF Uz_percent <= 60000
    THEN \* (PI / 4) * Uz^2, Uz^2 held in units of 1e-7
         LET h == Uz_percent \div 10
             r == Uz_percent % 10
             Uz2 == RoundDiv(h * h + RoundDiv(2 * h * r, 10), 10)
         IN  Some(RoundDiv(Uz2 * 355, 4520))
    ELSE \* -0.933 * log10(1 - Uz) - 0.085
         Some(RoundDiv(933 * Log10Frac(100000, 100000 - Uz_percent), 100) - 85000)

\* floor(sqrt(n)) rounded to the nearest integer
ISqrtProximo(n) ==
    LET s == ISqrt(n)
    IN  IF n - s * s > s THEN s + 1 ELSE s

RECURSIVE AntiLogEntre(_, _, _)
\* the largest m in lo..hi with log10(100000 / m) >= f (f in units of 1e-5)
AntiLogEntre(f, lo, hi) ==
    IF lo >= hi THEN lo
    ELSE LET mid == (lo + hi + 1) \div 2
         IN  IF Log10Frac(100000, mid) >= f
             THEN AntiLogEntre(f, mid, hi)
             ELSE AntiLogEntre(f, lo, mid - 1)

RECURSIVE Potencia10(_)
Potencia10(k) == IF k = 0 THEN 1 ELSE 10 * Potencia10(k - 1)

\* 10 ** (-e) in units of 1e-5, for e >= 0 in units of 1e-5
DezElevadoAMenos(e) ==
    IF e >= 600000 THEN 0
    ELSE AntiLogEntre(e % 100000, 10000, 100000) \div Potencia10(e \div 100000)

\* line 37: (Tv + 0.085) / 0.933, the exponent with its sign dropped, in 1e-5
ExpoenteNegativo(Tv) ==
    IF Tv = INF THEN INF
    ELSE LET n == Tv + 85000
         IN  (n \div 933) * 100 + RoundDiv((n % 933) * 100, 933)

\* mutant: the regime of the inverse chosen at Tv = 0.29
calcular_Uz_de_Tv_LimiarDeslocado(Tv) ==
    IF Tv < 0 THEN None
    ELSE IF Tv = 0 THEN Some(0)
    ELSE LET Uz == IF Tv <= 290000
                   THEN \* sqrt(4 Tv / PI) = 2 sqrt(Tv / PI)
                        2 * ISqrtProximo(Tv * 3183 + Tv \div 10)
                   ELSE IF ExpoenteNegativo(Tv) > 3000000
                   THEN 100000
                   ELSE 100000 - DezElevadoAMenos(ExpoenteNegativo(Tv))
         IN  Some(Max(0, Min(100000, Uz)))

\* lines 23-48: Uz (%) from Tv; None for Tv < 0
calcular_Uz_de_Tv(Tv) ==
    IF Tv < 0 THEN None
    ELSE IF Tv = 0 THEN Some(0)
    ELSE LET Uz == IF Tv <= 283000
                   THEN \* sqrt(4 Tv / PI) = 2 sqrt(Tv / PI)
                        2 * ISqrtProximo(Tv * 3183 + Tv \div 10)
                   ELSE IF ExpoenteNegativo(Tv) > 3000000
                   THEN 100000
                   ELSE 100000 - DezElevadoAMenos(ExpoenteNegativo(Tv))
         IN  Some(Max(0, Min(100000, Uz)))

\* models.TempoAdensamentoOutput
TempoAdensamentoOutput(tempo_calculado, recalque_no_tempo, Uz, Tv, erro) ==
    [tempo_calculado |-> tempo_calculado, recalque_no_tempo |-> recalque_no_tempo,
     grau_adensamento_medio_calculado |-> Uz, fator_tempo |-> Tv, erro |-> erro]

\* lines 115-116: the ValueError caught and returned as the error message
TempoErro(msg) == TempoAdensamentoOutput(None, None, None, None, Some(msg))

\* mutant: the total settlement returned whatever the degree
VezesSobreMilhao_SemGrau(a, b) == RoundDiv(b, 10)

\* round(a * b / 1e6) without leaving 32 bits, 0 <= a, b < 2^17:
\* (Uz / 100) * delta_H_total, rounded to 4 places
VezesSobreMilhao(a, b) ==
    LET a1 == a \div 1000
        a0 == a % 1000
        b1 == b \div 1000
        b0 == b % 1000
        resto == (a1 * b0 + a0 * b1) * 1000 + a0 * b0
        q == a1 * b1 + resto \div 1000000
        r == resto % 1000000
    IN  IF 2 * r < 1000000 THEN q
        ELSE IF 2 * r > 1000000 THEN q + 1
        ELSE IF q % 2 = 0 THEN q ELSE q + 1

\* mutant: a time of 0 read as no time
TempoAusente_ZeroContaComoAusente(dados) ==
    IF IsNone(dados.tempo) THEN TRUE ELSE Val(dados.tempo) = 0

\* lines 65, 67, 91: dados.tempo is None
TempoAusente(dados) == IsNone(dados.tempo)

\* lines 108-113: the rounding of the output
TempoSaida(tempo, recalque, Uz, Tv) ==
    TempoAdensamentoOutput(
        Some(IF tempo = INF THEN INF ELSE tempo),
        Some(recalque),
        Some(RoundDiv(Uz, 10)),
        Some(IF Tv = INF THEN INF ELSE RoundDiv(Tv, 100)),
        None)

\* lines 50-119
calcular_tempo_adensamento(dados) ==
    LET delta_H_total == dados.recalque_total_primario
        Cv == dados.coeficiente_adensamento
        Hd == dados.altura_drenagem
    IN  IF delta_H_total <= 0 \/ Cv <= 0 \/ Hd <= 0
        THEN TempoErro("Recalque total, Cv e Hd devem ser positivos.")
        ELSE IF TempoAusente(dados) /\ IsNone(dados.grau_adensamento_medio)
        THEN TempoErro("E necessario fornecer 'tempo' ou 'grau_adensamento_medio'.")
        ELSE IF ~TempoAusente(dados) /\ ~IsNone(dados.grau_adensamento_medio)
        THEN TempoErro("Forneca apenas 'tempo' OU 'grau_adensamento_medio'.")
        ELSE IF ~IsNone(dados.grau_adensamento_medio)
        THEN \* case 1: the time to reach Uz
             LET Uz_desejado == Val(dados.grau_adensamento_medio)
                 Tv_calculado == calcular_Tv_de_Uz(Uz_desejado)
             IN  IF IsNone(Tv_calculado)
                 THEN TempoErro("Grau de adensamento medio invalido.")
                 ELSE IF Val(Tv_calculado) = INF
                 THEN TempoSaida(INF, RoundDiv(delta_H_total, 10), 100000, INF)
                 ELSE TempoSaida(RoundDiv(Val(Tv_calculado) * Hd * Hd, Cv * 1000),
                                 VezesSobreMilhao(Uz_desejado, delta_H_total),
                                 Uz_desejado, Val(Tv_calculado))
        ELSE \* case 2: settlement and Uz at a given time
             LET tempo == Val(dados.tempo)
             IN  IF tempo < 0 THEN TempoErro("Tempo deve ser nao-negativo.")
                 ELSE IF tempo = 0 THEN TempoSaida(RoundDiv(tempo, 10), 0, 0, 0)
                 ELSE LET Tv_calculado == RoundDiv(Cv * tempo * 100, Hd * Hd)
                          Uz_calculado == calcular_Uz_de_Tv(Tv_calculado)
                      IN  IF IsNone(Uz_calculado)
                          THEN TempoErro("Erro ao calcular Uz a partir de Tv.")
                          ELSE TempoSaida(RoundDiv(tempo, 10),
                                          VezesSobreMilhao(Val(Uz_calculado), delta_H_total),
                                          Val(Uz_calculado), Tv_calculado)

\* ------------------------------------------------------------ fluxo_hidraulico
\* Lengths (thicknesses, depths, water levels) are integers in tenths of a length
\* unit, unit weights in tenths, permeabilities in units of 1e-7, the applied
\* gradient in thousandths, porosities in hundredths.  EPSILON = 1e-9 lies
\* strictly between 0 and one unit of each of them, so x <= EPSILON is x <= 0.
\* A function that can raise returns [raise, v]: the message of the ValueError,
\* or the value.

Devolve(v) == [raise |-> None, v |-> v]

Levanta(msg) == [raise |-> Some(msg), v |-> None]

RECURSIVE SomaEspessurasFluxo(_, _)
\* sum(c.espessura for c in camadas if c.espessura > 0), from layer k on
SomaEspessurasFluxo(camadas, k) ==
    IF k > Len(camadas) THEN 0
    ELSE (IF camadas[k].espessura > 0 THEN camadas[k].espessura ELSE 0)
         + SomaEspessurasFluxo(camadas, k + 1)

RECURSIVE SomaKEspessura(_, _)
\* line 31: sum(c.k * c.espessura for c in camadas)
SomaKEspessura(camadas, k) ==
    IF k > Len(camadas) THEN 0
    ELSE camadas[k].k * camadas[k].espessura + SomaKEspessura(camadas, k + 1)

RECURSIVE SomaEspessuraSobreK(_, _, _)
\* lines 42, 46: sum(c.espessura / c.k for c in camadas if c.k > EPSILON), as the
\* fraction [num, den]
SomaEspessuraSobreK(camadas, k, f) ==
    IF k > Len(camadas) THEN f
    ELSE IF camadas[k].k > 0 /\ camadas[k].espessura > 0
    THEN SomaEspessuraSobreK(camadas, k + 1,
             [num |-> f.num * camadas[k].k + camadas[k].espessura * f.den,
              den |-> f.den * camadas[k].k])
    ELSE SomaEspessuraSobreK(camadas, k + 1, f)

\* lines 10-51: the equivalent permeability, in units of 1e-8; None, a value, or
\* a ValueError.  np.isclose(c.k, 0) is c.k = 0 on the model's grid
calcular_permeabilidade_equivalente(camadas, direcao) ==
    LET espessura_total == SomaEspessurasFluxo(camadas, 1)
        Ks == {camadas[j].k : j \in 1..Len(camadas)}
        kv_den_sum == SomaEspessuraSobreK(camadas, 1, [num |-> 0, den |-> 1])
    IN  IF camadas = <<>> THEN Devolve(None)
        ELSE IF espessura_total <= 0 THEN Devolve(None)
        ELSE IF \E k \in Ks : k < 0
        THEN Levanta("Todas as camadas devem ter um coeficiente de permeabilidade (k) nao-negativo definido.")
        ELSE IF Lower(direcao) = "horizontal"
        THEN Devolve(Some(RoundDiv(10 * SomaKEspessura(camadas, 1), espessura_total)))
        ELSE IF Lower(direcao) = "vertical"
        THEN IF 0 \in Ks
             THEN IF \E j \in 1..Len(camadas) : camadas[j].k = 0 /\ camadas[j].espessura > 0
                  THEN Devolve(Some(0))
                  ELSE IF kv_den_sum.num <= 0 THEN Devolve(None)
                  ELSE Devolve(Some(RoundDiv(10 * espessura_total * kv_den_sum.den,
                                             kv_den_sum.num)))
             ELSE IF kv_den_sum.num <= 0 THEN Devolve(None)
             ELSE Devolve(Some(RoundDiv(10 * espessura_total * kv_den_sum.den,
                                        kv_den_sum.num)))
        ELSE Levanta("Direcao deve ser 'horizontal' ou 'vertical'.")

\* lines 53-71: discharge and seepage velocities in units of 1e-10, for k in
\* units of 1e-7 and i in thousandths; n is None or the mean porosity as the
\* fraction [soma, quantos] of hundredths
calcular_velocidades_fluxo(k, i, n) ==
    LET v_descarga == k * i
    IN  IF k < 0 \/ i < 0
        THEN Levanta("Coeficiente de permeabilidade (k) e gradiente hidraulico (i) devem ser nao-negativos.")
        ELSE IF IsNone(n)
        THEN Devolve([velocidade_descarga |-> Some(v_descarga), velocidade_fluxo |-> None])
        ELSE IF Val(n).soma <= 0 \/ Val(n).soma >= 100 * Val(n).quantos
        THEN Levanta("Porosidade (n) deve estar entre 0 e 1 (exclusivo).")
        ELSE Devolve([velocidade_descarga |-> Some(v_descarga),
                      velocidade_fluxo |->
                          Some(RoundDiv(v_descarga * 100 * Val(n).quantos, Val(n).soma))])

\* lines 185-200: the critical gradient in units of 1e-6, or None
calcular_gradiente_critico(gamma_sat, gamma_w) ==
    LET gamma_sub == gamma_sat - gamma_w
    IN  IF gamma_w <= 0 THEN None
        ELSE IF gamma_sub < 0 THEN None
        ELSE Some(RoundDiv(gamma_sub * 1000000, gamma_w))

\* lines 202-211: the factor of safety in units of 1e-4, INF, or None
calcular_fs_liquefacao(icrit, i_atuante) ==
    IF i_atuante <= 0 THEN Some(INF)
    ELSE IF icrit < 0 THEN None
    ELSE Some(RoundDiv(icrit * 10, i_atuante))

\* models.TensaoPontoFluxo
TensaoPontoFluxo(z, sv, u, sev, h) ==
    [profundidade |-> z, tensao_total_vertical |-> sv, pressao_neutra |-> u,
     tensao_efetiva_vertical |-> sev, carga_hidraulica_total |-> h]

RECURSIVE OrdenarConjunto(_)
\* line 138: sorted(list(set(profundidades)))
OrdenarConjunto(S) ==
    IF S = {} THEN <<>>
    ELSE LET m == CHOOSE x \in S : \A y \in S : x <= y
         IN  <<m>> \o OrdenarConjunto(S \ {m})

RECURSIVE AvancarCamadas(_, _, _)
\* lines 143-146: the while loop that walks down to the layer holding z_ponto;
\* st is [idx, tensao_total_acumulada, profundidade_camada_atual], idx from 1
AvancarCamadas(st, z_ponto, camadas) ==
    IF /\ st.idx <= Len(camadas)
       /\ z_ponto > st.profundidade_camada_atual + camadas[st.idx].espessura
    THEN AvancarCamadas(
             [idx |-> st.idx + 1,
              tensao_total_acumulada |->
                  st.tensao_total_acumulada
                  + Val(camadas[st.idx].gamma_sat) * camadas[st.idx].espessura,
              profundidade_camada_atual |->
                  st.profundidade_camada_atual + camadas[st.idx].espessura],
             z_ponto, camadas)
    ELSE st

\* lines 148-180: the stresses at z_ponto, rounded to 3 places.  X / E is the
\* total head plus z (in tenths): head = -NA_entrada + i_medio * z with
\* i_medio = delta_h / E
PontoComFluxo(st, z_ponto, camadas, na_entrada, delta_h, E, gamma_w) ==
    LET abaixo == st.idx > Len(camadas)
        camada_atual == IF abaixo THEN camadas[Len(camadas)] ELSE camadas[st.idx]
        z_relativo == IF abaixo THEN camadas[Len(camadas)].espessura
                      ELSE z_ponto - st.profundidade_camada_atual
        sigma_v == st.tensao_total_acumulada + Val(camada_atual.gamma_sat) * z_relativo
        carga_E == delta_h * z_ponto - na_entrada * E
        u_E == Max(0, gamma_w * (carga_E + z_ponto * E))
        efetiva_E == Max(0, sigma_v * E - u_E)
    IN  TensaoPontoFluxo(z_ponto, 10 * sigma_v, RoundDiv(10 * u_E, E),
                         RoundDiv(10 * efetiva_E, E), RoundDiv(100 * carga_E, E))

RECURSIVE PontosComFluxo(_, _, _, _, _, _, _, _)
\* lines 141-180: the loop over the sorted depths, from the k-th on
PontosComFluxo(st, pontos_interesse, k, camadas, na_entrada, delta_h, E, gamma_w) ==
    IF k > Len(pontos_interesse) THEN <<>>
    ELSE LET st2 == AvancarCamadas(st, pontos_interesse[k], camadas)
         IN  <<PontoComFluxo(st2, pontos_interesse[k], camadas, na_entrada, delta_h,
                             E, gamma_w)>>
             \o PontosComFluxo(st2, pontos_interesse, k + 1, camadas, na_entrada,
                               delta_h, E, gamma_w)

RECURSIVE SomaEspessurasTodas(_, _)
\* line 106: sum(c.espessura for c in camadas)
SomaEspessurasTodas(camadas, k) ==
    IF k > Len(camadas) THEN 0
    ELSE camadas[k].espessura + SomaEspessurasTodas(camadas, k + 1)

\* lines 73-182: the stresses under vertical flow, or a ValueError
calcular_tensoes_com_fluxo(profundidades, camadas, profundidade_na_entrada, profundidade_na_saida, gamma_w, direcao_fluxo) ==
    LET espessura_total_fluxo == SomaEspessurasTodas(camadas, 1)
        delta_h_total == profundidade_na_saida - profundidade_na_entrada
        pontos_interesse == OrdenarConjunto({profundidades[j] : j \in 1..Len(profundidades)})
    IN  IF camadas = <<>> THEN Levanta("Lista de camadas nao pode ser vazia.")
        ELSE IF gamma_w <= 0 THEN Levanta("Peso especifico da agua deve ser positivo.")
        ELSE IF espessura_total_fluxo <= 0
        THEN Levanta("Espessura total das camadas de fluxo nao pode ser zero.")
        ELSE IF Lower(direcao_fluxo) = "descendente" /\ delta_h_total < 0
        THEN Levanta("Direcao de fluxo 'descendente' inconsistente.")
        ELSE IF Lower(direcao_fluxo) = "ascendente" /\ delta_h_total > 0
        THEN Levanta("Direcao de fluxo 'ascendente' inconsistente.")
        ELSE Devolve(PontosComFluxo(
                 [idx |-> 1, tensao_total_acumulada |-> 0, profundidade_camada_atual |-> 0],
                 pontos_interesse, 1, camadas, profundidade_na_entrada, delta_h_total,
                 espessura_total_fluxo, gamma_w))

\* models.FluxoHidraulicoOutput
FluxoHidraulicoOutput ==
    [permeabilidade_equivalente |-> None, velocidade_descarga |-> None,
     velocidade_fluxo |-> None, gradiente_critico |-> None, fs_liquefacao |-> None,
     pontos_tensao_fluxo |-> None, erro |-> None]

\* Python's truth value of an optional number: None and 0.0 are false
Verdadeiro(x) == ~IsNone(x) /\ Val(x) # 0

\* the same for an optional string: 'if dados_entrada.direcao_fluxo_vertical'
TextoPresente(t) == ~IsNone(t) /\ Val(t) # ""

\* the same for an optional list: 'if dados_entrada.profundidades_tensao'
ListaPresente(l) == ~IsNone(l) /\ Val(l) # <<>>

RECURSIVE SomaPorosidades(_, _)
\* main.py line 137: sum(porosidades), in hundredths
SomaPorosidades(camadas, k) ==
    IF k > Len(camadas) THEN 0
    ELSE Val(camadas[k].n) + SomaPorosidades(camadas, k + 1)

\* main.py lines 120-126: the equivalent permeability, rounded to 6 places
EtapaPermeabilidade(output, dados_entrada) ==
    IF TextoPresente(dados_entrada.direcao_permeabilidade_equivalente)
    THEN LET k_eq == calcular_permeabilidade_equivalente(
                         dados_entrada.camadas,
                         Val(dados_entrada.direcao_permeabilidade_equivalente))
         IN  IF ~IsNone(k_eq.raise) THEN Levanta(Val(k_eq.raise))
             ELSE Devolve([output EXCEPT !.permeabilidade_equivalente =
                              IF IsNone(k_eq.v) THEN None
                              ELSE Some(RoundDiv(Val(k_eq.v), 100))])
    ELSE Devolve(output)

\* main.py lines 128-146: the velocities, rounded to 6 places; k is the rounded
\* equivalent permeability, or the k of the first layer
EtapaVelocidades(output, dados_entrada) ==
    LET camadas == dados_entrada.camadas
        k_para_velocidade ==
            IF ~IsNone(output.permeabilidade_equivalente)
            THEN Some(10 * Val(output.permeabilidade_equivalente))
            ELSE IF camadas # <<>> THEN Some(camadas[1].k)
            ELSE None
        porosidade_media ==
            IF camadas # <<>> /\ \A j \in 1..Len(camadas) : ~IsNone(camadas[j].n)
            THEN Some([soma |-> SomaPorosidades(camadas, 1), quantos |-> Len(camadas)])
            ELSE None
    IN  IF ~IsNone(k_para_velocidade) /\ ~IsNone(dados_entrada.gradiente_hidraulico_aplicado)
        THEN LET velocidades == calcular_velocidades_fluxo(
                                    Val(k_para_velocidade),
                                    Val(dados_entrada.gradiente_hidraulico_aplicado),
                                    porosidade_media)
             IN  IF ~IsNone(velocidades.raise) THEN Levanta(Val(velocidades.raise))
                 ELSE Devolve([output EXCEPT
                          !.velocidade_descarga =
                              Some(RoundDiv(Val(velocidades.v.velocidade_descarga), 10000)),
                          !.velocidade_fluxo =
                              IF IsNone(velocidades.v.velocidade_fluxo) THEN None
                              ELSE Some(RoundDiv(Val(velocidades.v.velocidade_fluxo), 10000))])
        ELSE Devolve(output)

\* main.py lines 158-159: fs_liq, rounded to 2 places when it is finite
FatorDeSeguranca(icrit, i_atuante) ==
    LET fs_liq == calcular_fs_liquefacao(icrit, i_atuante)
    IN  IF ~IsNone(fs_liq) /\ Val(fs_liq) # INF
        THEN Some(RoundDiv(Val(fs_liq), 100))
        ELSE fs_liq

\* main.py lines 148-161: critical gradient (3 places) and factor of safety,
\* for upward flow only
EtapaGradienteCritico(output, dados_entrada) ==
    LET camadas == dados_entrada.camadas
    IN  IF /\ TextoPresente(dados_entrada.direcao_fluxo_vertical)
           /\ Lower(Val(dados_entrada.direcao_fluxo_vertical)) = "ascendente"
        THEN IF camadas # <<>> /\ Verdadeiro(camadas[Len(camadas)].gamma_sat)
             THEN LET icrit == calcular_gradiente_critico(
                                   Val(camadas[Len(camadas)].gamma_sat),
                                   dados_entrada.peso_especifico_agua)
                  IN  [output EXCEPT
                          !.gradiente_critico =
                              IF IsNone(icrit) THEN None
                              ELSE Some(RoundDiv(Val(icrit), 1000)),
                          !.fs_liquefacao =
                              IF /\ ~IsNone(icrit)
                                 /\ ~IsNone(dados_entrada.gradiente_hidraulico_aplicado)
                              THEN FatorDeSeguranca(
                                       Val(icrit),
                                       Val(dados_entrada.gradiente_hidraulico_aplicado))
                              ELSE output.fs_liquefacao]
             ELSE [output EXCEPT !.erro =
                      Some("gamma_sat da ultima camada necessario para calcular icrit.")]
        ELSE output

\* main.py lines 164-182: the stresses under flow
EtapaTensoes(output, dados_entrada) ==
    IF /\ ListaPresente(dados_entrada.profundidades_tensao)
       /\ ~IsNone(dados_entrada.profundidade_na_entrada)
       /\ ~IsNone(dados_entrada.profundidade_na_saida)
       /\ TextoPresente(dados_entrada.direcao_fluxo_vertical)
    THEN IF \E j \in 1..Len(dados_entrada.camadas) :
                IsNone(dados_entrada.camadas[j].gamma_sat)
         THEN Devolve([output EXCEPT !.erro =
                  Some("gamma_sat deve ser definido para todas as camadas.")])
         ELSE LET pontos_tensao == calcular_tensoes_com_fluxo(
                                       Val(dados_entrada.profundidades_tensao),
                                       dados_entrada.camadas,
                                       Val(dados_entrada.profundidade_na_entrada),
                                       Val(dados_entrada.profundidade_na_saida),
                                       dados_entrada.peso_especifico_agua,
                                       Val(dados_entrada.direcao_fluxo_vertical))
              IN  IF ~IsNone(pontos_tensao.raise) THEN Levanta(Val(pontos_tensao.raise))
                  ELSE Devolve([output EXCEPT !.pontos_tensao_fluxo = Some(pontos_tensao.v)])
    ELSE Devolve(output)

\* main.py lines 185-186: the error of a request that produced nothing
EtapaNenhumaAnalise(output) ==
    IF /\ ~(\/ Verdadeiro(output.permeabilidade_equivalente)
            \/ Verdadeiro(output.velocidade_descarga)
            \/ Verdadeiro(output.gradiente_critico)
            \/ ListaPresente(output.pontos_tensao_fluxo))
       /\ ~TextoPresente(output.erro)
    THEN [output EXCEPT !.erro =
             Some("Nenhuma analise de fluxo solicitada ou dados insuficientes.")]
    ELSE output

\* main.py lines 110-197: post_analisar_fluxo; a ValueError becomes the
\* HTTPException 400
post_analisar_fluxo(dados_entrada) ==
    LET e1 == EtapaPermeabilidade(FluxoHidraulicoOutput, dados_entrada)
        e2 == EtapaVelocidades(e1.v, dados_entrada)
        e3 == EtapaGradienteCritico(e2.v, dados_entrada)
        e4 == EtapaTensoes(e3, dados_entrada)
    IN  IF ~IsNone(e1.raise) THEN Resposta(400, e1.raise, None)
        ELSE IF ~IsNone(e2.raise) THEN Resposta(400, e2.raise, None)
        ELSE IF ~IsNone(e4.raise) THEN Resposta(400, e4.raise, None)
        ELSE Resposta(200, None, Some(EtapaNenhumaAnalise(e4.v)))

\* ------------------------------------------------------------ inputs

MaxCamadas == 2

\* models.CamadaSolo: espessura > 0, Ko >= 0, unit weights optional and unconstrained
Espessuras == {50000, 100000, 100004}

GamasNat == {None, Some(-2), Some(16)}

GamasSat == {None, Some(8), Some(20)}

CamadasSolo ==
    [espessura : Espessuras, gama_nat : GamasNat, gama_sat : GamasSat, Ko : {5}]
    \cup [espessura : {50000, 100000}, gama_nat : {Some(16)}, gama_sat : {Some(20)},
          Ko : {8}]
    \cup [espessura : {100000}, gama_nat : {Some(16)}, gama_sat : {Some(20)}, Ko : {0}]

SeqsAte(S, n) == UNION {[1..k -> S] : k \in 0..n}

\* models.TensoesGeostaticasInput (the empty list is what the function itself rejects)
TensoesGeostaticasInputs ==
    [camadas : SeqsAte(CamadasSolo, MaxCamadas),
     profundidade_na : {0, 50000, 100000, 100001, 400000},
     altura_capilar : {0, 50000, 200000},
     peso_especifico_agua : {10}]

\* models.PontoInteresse (z <= 0 is what the function itself rejects)
PontosInteresse == [x : {0, 3}, y : {0, 4}, z : {-1, 0, 1, 2, 4, 6, 8}]

\* models.CargaPontual
CargasPontuais == [x : {0, 3}, y : {0}, P : {100}]

\* models.CargaFaixa
CargasFaixa == [largura : {2, 4}, intensidade : {100}, centro_x : {0, 3}]

\* models.CargaCircular
CargasCirculares ==
    [raio : {1, 2, 8}, intensidade : {100}, centro_x : {0, 3}, centro_y : {0}]

Opcional(S) == {None} \cup {Some(v) : v \in S}

\* models.AcrescimoTensoesInput
AcrescimoTensoesInputs ==
    [tipo_carga : {"pontual", "faixa", "circular", "Pontual", "retangular"},
     ponto_interesse : PontosInteresse,
     carga_pontual : Opcional(CargasPontuais),
     carga_faixa : Opcional(CargasFaixa),
     carga_circular : Opcional(CargasCirculares)]

\* models.RecalqueAdensamentoInput (the non-positive values are what the function
\* itself rejects)
RecalqueAdensamentoInputs ==
    [espessura_camada : {0, 5},
     indice_vazios_inicial : {0, 10},
     Cc : {0, 30},
     Cr : {0, 5, 40},
     tensao_efetiva_inicial : {0, 1, 2, 100},
     tensao_pre_adensamento : {0, 2, 80, 90, 100, 110, 200},
     acrescimo_tensao : {-1, 0, 50, 100, 150}]

\* models.TempoAdensamentoInput (the values outside the declared ranges are what
\* the function itself rejects).  The times lie on either side of Tv = 0.283
\* (1.2734 and 1.2736 for Cv = 2, Hd = 3), none on it: Cv * t / Hd^2 is a
\* float and 2 * 1.2735 / 9 is not the float 0.283
TempoAdensamentoInputs ==
    [recalque_total_primario : {0, 50000, 50004, 50006},
     coeficiente_adensamento : {0, 2},
     altura_drenagem : {0, 3},
     tempo : Opcional({-1, 0, 4, 5000, 12726, 12730, 12734, 12736, 12740, 13000,
                       50000, 2000000}),
     grau_adensamento_medio : Opcional({-1, 0, 30000, 60000, 60001, 90000, 99998,
                                        99999, 100000, 100001})]

\* models.CamadaFluxo: sand, silt, an impermeable layer as heavy as water, a
\* clay without gamma_sat, a clay as heavy as water, a layer lighter than water
CamadasFluxo ==
    {[espessura |-> 20, k |-> 100, n |-> Some(35), gamma_sat |-> Some(185)],
     [espessura |-> 30, k |-> 50, n |-> Some(38), gamma_sat |-> Some(196)],
     [espessura |-> 30, k |-> 0, n |-> None, gamma_sat |-> Some(100)],
     [espessura |-> 30, k |-> 4, n |-> None, gamma_sat |-> None],
     [espessura |-> 20, k |-> 4, n |-> Some(35), gamma_sat |-> Some(100)],
     [espessura |-> 30, k |-> 50, n |-> Some(38), gamma_sat |-> Some(90)]}

\* models.FluxoHidraulicoInput (camadas has min_items = 1)
FluxoHidraulicoInputs ==
    [camadas : SeqsAte(CamadasFluxo, MaxCamadas) \ {<<>>},
     direcao_permeabilidade_equivalente : Opcional({"vertical", "horizontal", "diagonal"}),
     gradiente_hidraulico_aplicado : Opcional({0, 800}),
     profundidades_tensao : Opcional({<<>>, <<50, 0, 20, 20>>, <<60, 80>>}),
     profundidade_na_entrada : Opcional({60}),
     profundidade_na_saida : Opcional({10, 80}),
     direcao_fluxo_vertical : Opcional({"ascendente", "descendente"}),
     peso_especifico_agua : {100}]

\* ------------------------------------------------------------ the state machine

Init ==
    /\ op = "idle"
    /\ req = None
    /\ res = None

\* a call of calcular_tensoes_geostaticas
TensoesGeostaticas ==
    /\ op = "idle"
    /\ \E dados \in TensoesGeostaticasInputs :
          /\ op' = "tensoes_geostaticas"
          /\ req' = dados
          /\ res' = calcular_tensoes_geostaticas(dados)

\* a call of calcular_acrescimo_tensoes
AcrescimoTensoes ==
    /\ op = "idle"
    /\ \E dados \in AcrescimoTensoesInputs :
          /\ op' = "acrescimo_tensoes"
          /\ req' = dados
          /\ res' = calcular_acrescimo_tensoes(dados)

\* a request to POST /calcular/acrescimo-tensoes
PostAcrescimoTensoes ==
    /\ op = "idle"
    /\ \E dados \in AcrescimoTensoesInputs :
          /\ op' = "post_acrescimo_tensoes"
          /\ req' = dados
          /\ res' = post_calcular_acrescimo_tensoes(dados)

\* a call of calcular_recalque_adensamento
RecalqueAdensamento ==
    /\ op = "idle"
    /\ \E dados \in RecalqueAdensamentoInputs :
          /\ op' = "recalque_adensamento"
          /\ req' = dados
          /\ res' = calcular_recalque_adensamento(dados)

\* a call of calcular_tempo_adensamento
TempoAdensamento ==
    /\ op = "idle"
    /\ \E dados \in TempoAdensamentoInputs :
          /\ op' = "tempo_adensamento"
          /\ req' = dados
          /\ res' = calcular_tempo_adensamento(dados)

\* a request to /analisar/fluxo-hidraulico
AnalisarFluxo ==
    /\ op = "idle"
    /\ \E dados_entrada \in FluxoHidraulicoInputs :
          /\ op' = "analisar_fluxo"
          /\ req' = dados_entrada
          /\ res' = post_analisar_fluxo(dados_entrada)

\* the response has been sent; the server holds nothing of the request
Retornar ==
    /\ op # "idle"
    /\ op' = "idle"
    /\ req' = None
    /\ res' = None

Next ==
    \/ TensoesGeostaticas
    \/ AcrescimoTensoes
    \/ PostAcrescimoTensoes
    \/ RecalqueAdensamento
    \/ TempoAdensamento
    \/ AnalisarFluxo
    \/ Retornar

Spec == Init /\ [][Next]_vars

\* ------------------------------------------------------------ the two mappings alone
\* A second state machine applies calcular_Tv_de_Uz to a degree and then
\* calcular_Uz_de_Tv to the time factor it returned: req holds <<Uz>> and then
\* <<Uz, Tv>>, res the value last returned.

\* degrees across [0, 100), dense around the regime boundary and near 100 %, and
\* the values calcular_Tv_de_Uz rejects or answers with infinity
GrausAmostrados ==
    {250 * k : k \in 0..399} \cup (59990..60010) \cup (99990..100001) \cup {-1, 1, 2}

InitMapeamentos ==
    /\ op = "idle"
    /\ req \in {<<Uz>> : Uz \in GrausAmostrados}
    /\ res = None

AplicarTvDeUz ==
    /\ op = "idle"
    /\ op' = "Tv_de_Uz"
    /\ req' = req
    /\ res' = calcular_Tv_de_Uz(req[1])

AplicarUzDeTv ==
    /\ op = "Tv_de_Uz"
    /\ ~IsNone(res)
    /\ op' = "Uz_de_Tv"
    /\ req' = <<req[1], Val(res)>>
    /\ res' = calcular_Uz_de_Tv(Val(res))

NextMapeamentos ==
    \/ AplicarTvDeUz
    \/ AplicarUzDeTv

SpecMapeamentos == InitMapeamentos /\ [][NextMapeamentos]_vars


\* ------------------------------------------------------------ concurrent invocations
\* The endpoints are plain 'def' functions, which the server runs on worker
\* threads, so invocations of the core operations overlap.  A third state machine
\* runs two invocations step by step and interleaves their steps:
\*   op[p]  = [pc, i, retorno, sobreposta]: position of invocation p, its loop
\*            index, the value it returned, and whether one of its steps was taken
\*            while the other invocation was between its entry and its return;
\*   req[p] = [operacao, dados, original]: the input object of p, and the value it
\*            had when p was called;
\*   res[e] = the objects allocated in scope e: the locals pontos_calculo,
\*            profundidade_atual, tensao_total_atual of calcular_tensoes_geostaticas
\*            (lines 16-18) and the abaco_data of
\*            calcular_acrescimo_love_circular_abaco (lines 124-131).

Invocacoes == {1, 2}

\* mutant: the locals held at module level, one scope for every invocation
Escopo_DeModulo(p) == 1

\* every call allocates its own locals: the scope of invocation p is p's
Escopo(p) == p

CamadaSeca == [espessura |-> 100000, gama_nat |-> Some(16), gama_sat |-> None, Ko |-> 5]

CamadaMista == [espessura |-> 100000, gama_nat |-> Some(16), gama_sat |-> Some(20), Ko |-> 5]

CamadaSaturada == [espessura |-> 50000, gama_nat |-> None, gama_sat |-> Some(20), Ko |-> 5]

\* the calls that overlap: profiles of no, one and two layers with the water table
\* inside a layer, at an interface, or in a layer without gama_sat (an error);
\* circular, point and rejected load requests; one settlement; two time queries
ChamadasConcorrentes ==
    {[operacao |-> "tensoes_geostaticas", dados |-> d] :
        d \in [camadas : {<<>>, <<CamadaMista>>, <<CamadaSeca, CamadaSaturada>>,
                          <<CamadaMista, CamadaSaturada>>, <<CamadaSeca, CamadaSeca>>},
               profundidade_na : {50000, 100000}, altura_capilar : {0},
               peso_especifico_agua : {10}]}
    \cup {[operacao |-> "acrescimo_tensoes", dados |-> d] :
        d \in [tipo_carga : {"circular", "pontual"},
               ponto_interesse : [x : {0, 3}, y : {0}, z : {0, 4}],
               carga_pontual : {Some([x |-> 0, y |-> 0, P |-> 100])},
               carga_faixa : {None},
               carga_circular : {Some([raio |-> 2, intensidade |-> 100,
                                       centro_x |-> 0, centro_y |-> 0])}]}
    \cup {[operacao |-> "recalque_adensamento", dados |-> d] :
        d \in [espessura_camada : {5}, indice_vazios_inicial : {10}, Cc : {30},
               Cr : {5}, tensao_efetiva_inicial : {100},
               tensao_pre_adensamento : {200}, acrescimo_tensao : {150}]}
    \cup {[operacao |-> "tempo_adensamento", dados |-> d] :
        d \in [recalque_total_primario : {50000}, coeficiente_adensamento : {2},
               altura_drenagem : {3}, tempo : {None, Some(13000)},
               grau_adensamento_medio : {None, Some(60000)}]}

\* the scopes before any call
EscoposVazios ==
    [e \in Invocacoes |->
        [pontos |-> <<>>, profundidade_atual |-> 0, tensao_total_atual |-> 0,
         erro |-> None, abaco_data |-> None]]

InitConcorrente ==
    /\ op = [p \in Invocacoes |->
                [pc |-> "inicio", i |-> 0, retorno |-> None, sobreposta |-> FALSE]]
    /\ req \in [Invocacoes ->
                   {[operacao |-> c.operacao, dados |-> c.dados, original |-> c.dados] :
                       c \in ChamadasConcorrentes}]
    /\ res = EscoposVazios

\* another invocation is between its entry and its return
OutraEmCurso(p) ==
    \E q \in Invocacoes \ {p} : op[q].pc \notin {"inicio", "fim"}

\* invocation p moves to pc with loop index i
Passo(p, pc, i) ==
    op' = [op EXCEPT ![p] = [pc |-> pc, i |-> i, retorno |-> op[p].retorno,
                             sobreposta |-> op[p].sobreposta \/ OutraEmCurso(p)]]

\* invocation p returns valor
Retorno(p, valor) ==
    op' = [op EXCEPT ![p] = [pc |-> "fim", i |-> op[p].i, retorno |-> Some(valor),
                             sobreposta |-> op[p].sobreposta \/ OutraEmCurso(p)]]

\* tensoes_geoestaticas.py lines 16-46: the locals are created, the empty list
\* is rejected, the surface point is appended
EntrarTensoes(p) ==
    LET dados == req[p].dados
    IN  /\ op[p].pc = "inicio"
        /\ req[p].operacao = "tensoes_geostaticas"
        /\ req' = req
        /\ IF dados.camadas = <<>>
           THEN /\ res' = res
                /\ Retorno(p, [pontos_calculo |-> <<>>,
                               erro |-> Some("A lista de camadas nao pode estar vazia.")])
           ELSE /\ res' = [res EXCEPT ![Escopo(p)].pontos = <<PontoInicial(dados)>>,
                                      ![Escopo(p)].profundidade_atual = 0,
                                      ![Escopo(p)].tensao_total_atual = 0,
                                      ![Escopo(p)].erro = None]
                /\ Passo(p, "camadas", 1)

\* tensoes_geoestaticas.py lines 49-132: one iteration of the loop over the layers
ProcessarUmaCamada(p) ==
    LET dados == req[p].dados
        e == Escopo(p)
        st == [pontos |-> res[e].pontos,
               profundidade_atual |-> res[e].profundidade_atual,
               tensao_total_atual |-> res[e].tensao_total_atual,
               erro |-> None]
        depois == ProcessarCamada(st, dados.camadas[op[p].i], dados)
    IN  /\ op[p].pc = "camadas"
        /\ op[p].i <= Len(dados.camadas)
        /\ req' = req
        /\ res' = [res EXCEPT ![e].pontos = depois.pontos,
                              ![e].profundidade_atual = depois.profundidade_atual,
                              ![e].tensao_total_atual = depois.tensao_total_atual,
                              ![e].erro = depois.erro]
        /\ IF ~IsNone(depois.erro)
           THEN Retorno(p, [pontos_calculo |-> <<>>, erro |-> depois.erro])
           ELSE Passo(p, "camadas", op[p].i + 1)

\* tensoes_geoestaticas.py lines 135-145: sort, remove the repeated depths, return
OrdenarERetornar(p) ==
    /\ op[p].pc = "camadas"
    /\ op[p].i > Len(req[p].dados.camadas)
    /\ req' = req
    /\ res' = [res EXCEPT ![Escopo(p)].pontos = OrdenarPontos(res[Escopo(p)].pontos)]
    /\ Retorno(p, [pontos_calculo |->
                       PontosUnicos(OrdenarPontos(res[Escopo(p)].pontos), 1, {}),
                   erro |-> None])

\* acrescimo_tensoes.py lines 183-205 and 111-131: a circular request that passes
\* the checks enters the chart function, which builds its table; every other
\* request is answered at once
EntrarAcrescimo(p) ==
    LET dados == req[p].dados
    IN  /\ op[p].pc = "inicio"
        /\ req[p].operacao = "acrescimo_tensoes"
        /\ req' = req
        /\ IF /\ dados.ponto_interesse.z > 0
              /\ Lower(dados.tipo_carga) = "circular"
              /\ ~IsNone(dados.carga_circular)
           THEN /\ res' = [res EXCEPT ![Escopo(p)].abaco_data = Some(AbacoData)]
                /\ Passo(p, "abaco", 0)
           ELSE /\ res' = res
                /\ Retorno(p, calcular_acrescimo_tensoes(dados))

\* acrescimo_tensoes.py lines 133-173 and 221-230: the table is read, the factor
\* interpolated, the result returned
LerAbacoERetornar(p) ==
    /\ op[p].pc = "abaco"
    /\ res[Escopo(p)].abaco_data = Some(AbacoData)
    /\ req' = req
    /\ res' = res
    /\ Retorno(p, calcular_acrescimo_tensoes(req[p].dados))

\* recalque_adensamento.py lines 19-93: scalar locals only
ExecutarRecalque(p) ==
    /\ op[p].pc = "inicio"
    /\ req[p].operacao = "recalque_adensamento"
    /\ req' = req
    /\ res' = res
    /\ Retorno(p, calcular_recalque_adensamento(req[p].dados))

\* tempo_adensamento.py lines 58-119: scalar locals only
ExecutarTempo(p) ==
    /\ op[p].pc = "inicio"
    /\ req[p].operacao = "tempo_adensamento"
    /\ req' = req
    /\ res' = res
    /\ Retorno(p, calcular_tempo_adensamento(req[p].dados))

NextConcorrente ==
    \E p \in Invocacoes :
        \/ EntrarTensoes(p)
        \/ ProcessarUmaCamada(p)
        \/ OrdenarERetornar(p)
        \/ EntrarAcrescimo(p)
        \/ LerAbacoERetornar(p)
        \/ ExecutarRecalque(p)
        \/ ExecutarTempo(p)

SpecConcorrente == InitConcorrente /\ [][NextConcorrente]_vars

\* ------------------------------------------------------------ claims: geostatic profile

EhTensoes == op = "tensoes_geostaticas"

Pontos == res.pontos_calculo

RECURSIVE SomaEspessuras(_, _)
\* depth of the base of layer k of a list of layers (0 for k = 0)
SomaEspessuras(camadas, k) ==
    IF k = 0 THEN 0 ELSE SomaEspessuras(camadas, k - 1) + camadas[k].espessura

\* C1: every point of a returned profile has effective vertical stress
\* max(0, total - pore), to the rounding of the reported values (1e-4), and so
\* never a negative one.
C1_EfetivaClamp ==
    EhTensoes =>
        \A k \in 1..Len(Pontos) :
            /\ Pontos[k].tensao_efetiva_vertical >= 0
            /\ Abs(Pontos[k].tensao_efetiva_vertical
                   - Max(0, Pontos[k].tensao_total_vertical - Pontos[k].pressao_neutra)) <= 10

\* C2: every point at or below the water table, the surface point included, has
\* pore pressure (d - NA) * gama_w, to the rounding of the reported depth and value.
C2_PressaoAbaixoNA ==
    EhTensoes =>
        \A k \in 1..Len(Pontos) :
            Pontos[k].profundidade >= req.profundidade_na =>
                Abs(Pontos[k].pressao_neutra
                    - (Pontos[k].profundidade - req.profundidade_na) * req.peso_especifico_agua)
                  <= 5 * req.peso_especifico_agua + 10

TodasAcimaDoNA ==
    /\ EhTensoes
    /\ IsNone(res.erro)
    /\ SomaEspessuras(req.camadas, Len(req.camadas)) <= req.profundidade_na

\* C3 as written: with every layer above the water table, every point has pore
\* pressure 0 whatever the capillary height.
C3_Original ==
    TodasAcimaDoNA => \A k \in 1..Len(Pontos) : Pontos[k].pressao_neutra = 0

\* C3 amended: with every layer above the water table, every point that lies at the
\* water table, or higher above it than the capillary height (by more than the
\* rounding of the reported depth), has pore pressure 0; the points inside the
\* capillary fringe are the ones that may carry suction.
C3_PressaoNulaForaDaFranja ==
    TodasAcimaDoNA =>
        \A k \in 1..Len(Pontos) :
            \/ Pontos[k].profundidade = req.profundidade_na
            \/ req.profundidade_na - Pontos[k].profundidade > req.altura_capilar + 5
            => Pontos[k].pressao_neutra = 0

\* C3 witness: layers above the water table, a capillary fringe, a layer base above
\* the fringe (pore pressure 0) and one inside it (suction).
C3_Witness ==
    /\ TodasAcimaDoNA
    /\ req.altura_capilar > 0
    /\ \E k \in 2..Len(Pontos) :
          /\ req.profundidade_na - Pontos[k].profundidade > req.altura_capilar + 5
          /\ Pontos[k].pressao_neutra = 0
    /\ \E k \in 2..Len(Pontos) : Pontos[k].pressao_neutra < 0

\* C4: a returned profile starts at depth 0 and its depths increase strictly.
C4_ProfundidadesCrescentes ==
    (EhTensoes /\ IsNone(res.erro)) =>
        /\ Len(Pontos) >= 1
        /\ Pontos[1].profundidade = 0
        /\ \A k \in 1..(Len(Pontos) - 1) :
              Pontos[k].profundidade < Pontos[k + 1].profundidade

\* C4 witness: the water table lies inside the first layer, at the depth the layer's
\* base is reported at, so the water-table point and the base point coincide and
\* one of them was removed.
C4_Witness ==
    /\ EhTensoes
    /\ IsNone(res.erro)
    /\ Len(req.camadas) = 2
    /\ req.camadas[1].espessura > req.profundidade_na
    /\ Round4(req.camadas[1].espessura) = req.profundidade_na
    /\ Len(Pontos) = 3

\* what the position of layer i asks of it: gama_nat when part of it is above the
\* water table, gama_sat when part of it is below
FaltaPeso(dados, i) ==
    LET z_topo == SomaEspessuras(dados.camadas, i - 1)
        z_base == SomaEspessuras(dados.camadas, i)
    IN  \/ z_topo < dados.profundidade_na /\ IsNone(dados.camadas[i].gama_nat)
        \/ z_base > dados.profundidade_na /\ IsNone(dados.camadas[i].gama_sat)

EntradaInvalida(dados) ==
    \/ dados.camadas = <<>>
    \/ \E i \in 1..Len(dados.camadas) : FaltaPeso(dados, i)

\* C5: an error is returned iff the list of layers is empty or a layer lacks the
\* unit weight its position requires; with the error the list of points is empty,
\* and without it a profile is returned.
C5_ErroSseEntradaInvalida ==
    EhTensoes =>
        /\ ~IsNone(res.erro) <=> EntradaInvalida(req)
        /\ ~IsNone(res.erro) => Pontos = <<>>
        /\ IsNone(res.erro) => Len(Pontos) >= 2

\* C5 witness: the first layer is complete and the second one is faulty, so a
\* partial profile existed when the error was raised.
C5_Witness ==
    /\ EhTensoes
    /\ ~IsNone(res.erro)
    /\ Len(req.camadas) = 2
    /\ ~FaltaPeso(req, 1)
    /\ FaltaPeso(req, 2)
    /\ Pontos = <<>>

\* ------------------------------------------------------------ claims: stress increment

EhAcrescimo == op = "acrescimo_tensoes"

EhPostAcrescimo == op = "post_acrescimo_tensoes"

TiposSuportados == {"pontual", "faixa", "circular"}

\* the load variant the request names by tipo_carga (None for an unknown type)
VarianteNomeada(dados) ==
    CASE Lower(dados.tipo_carga) = "pontual" -> dados.carga_pontual
      [] Lower(dados.tipo_carga) = "faixa" -> dados.carga_faixa
      [] Lower(dados.tipo_carga) = "circular" -> dados.carga_circular
      [] OTHER -> None

NumeroDeVariantes(dados) ==
    Cardinality({c \in {"carga_pontual", "carga_faixa", "carga_circular"} :
                    ~IsNone(dados[c])})

\* C6: calcular_acrescimo_tensoes returns an error and no delta_sigma_v when
\* z <= 0, when tipo_carga names no supported load type, or when the variant it
\* names is absent; the endpoint rejects every request that does not populate
\* exactly one variant, so a numeric value leaves the endpoint only when the single
\* populated variant is the named one.
C6_ErrosDeEntrada ==
    /\ EhAcrescimo =>
          ((\/ req.ponto_interesse.z <= 0
            \/ Lower(req.tipo_carga) \notin TiposSuportados
            \/ IsNone(VarianteNomeada(req)))
           => (~IsNone(res.erro) /\ IsNone(res.delta_sigma_v)))
    /\ EhPostAcrescimo =>
          /\ (NumeroDeVariantes(req) # 1 => (res.status = 400 /\ IsNone(res.body)))
          /\ (res.status = 200 =>
                /\ ~IsNone(Val(res.body).delta_sigma_v)
                /\ NumeroDeVariantes(req) = 1
                /\ ~IsNone(VarianteNomeada(req))
                /\ req.ponto_interesse.z > 0)

\* C6 witness: a valid depth and a populated variant, but not the one tipo_carga
\* names: the function answers with an error and no value.
C6_Witness ==
    /\ EhAcrescimo
    /\ req.ponto_interesse.z > 0
    /\ Lower(req.tipo_carga) \in TiposSuportados
    /\ IsNone(VarianteNomeada(req))
    /\ NumeroDeVariantes(req) = 1
    /\ ~IsNone(res.erro)
    /\ IsNone(res.delta_sigma_v)

CircularComSucesso ==
    /\ EhAcrescimo
    /\ Lower(req.tipo_carga) = "circular"
    /\ IsNone(res.erro)

NoEixo(dados) ==
    /\ dados.ponto_interesse.x = Val(dados.carga_circular).centro_x
    /\ dados.ponto_interesse.y = Val(dados.carga_circular).centro_y

\* C7: for a circular load and a point on its axis the value returned is the
\* closed form intensity * [1 - (1 + (R/z)^2)^(-1.5)] (to 1% of the intensity),
\* and the method label tells the on-axis closed form from the off-axis chart.
C7_CircularNoEixoFormaFechada ==
    CircularComSucesso =>
        IF NoEixo(req)
        THEN /\ res.metodo = Some("Love (Circular - Centro)")
             /\ Abs(Val(res.delta_sigma_v)
                    - calcular_acrescimo_love_circular_centro(
                          Val(req.carga_circular), req.ponto_interesse).v)
                  <= 100 * Val(req.carga_circular).intensidade
        ELSE res.metodo = Some("Love (Circular - Abaco)")

\* ------------------------------------------------------------ claims: settlement

EhRecalque == op = "recalque_adensamento"

RecalqueSemNumeros ==
    /\ IsNone(res.recalque_total_primario)
    /\ IsNone(res.deformacao_volumetrica)
    /\ IsNone(res.tensao_efetiva_final)
    /\ IsNone(res.RPA)

RecalqueComNumeros ==
    /\ ~IsNone(res.recalque_total_primario)
    /\ ~IsNone(res.deformacao_volumetrica)
    /\ ~IsNone(res.tensao_efetiva_final)
    /\ ~IsNone(res.RPA)

\* one of H0, e0, Cc, Cr, the two stresses is <= 0, or the increment is < 0
AlgumValorForaDoDominio(dados) ==
    \/ \E c \in {"espessura_camada", "indice_vazios_inicial", "Cc", "Cr",
                 "tensao_efetiva_inicial", "tensao_pre_adensamento"} : dados[c] <= 0
    \/ dados.acrescimo_tensao < 0

\* C8 as written: an error with no numeric result iff one of the values is out of
\* its domain (<= 0, or increment < 0).
C8_Original ==
    EhRecalque =>
        /\ ~IsNone(res.erro) <=> AlgumValorForaDoDominio(req)
        /\ ~IsNone(res.erro) => RecalqueSemNumeros
        /\ IsNone(res.erro) => RecalqueComNumeros

\* C8 amended: an error with no numeric result iff one of the values is out of its
\* domain or the initial effective stress is <= EPSILON (1e-9), which the code
\* treats as zero; every other input, Cr > Cc included, is computed.
C8_ErroSseForaDoDominioOuTensaoNula ==
    EhRecalque =>
        /\ ~IsNone(res.erro) <=>
              (AlgumValorForaDoDominio(req) \/ req.tensao_efetiva_inicial <= EPSILON)
        /\ ~IsNone(res.erro) => RecalqueSemNumeros
        /\ IsNone(res.erro) => RecalqueComNumeros

\* C8 witness: Cr > Cc on an otherwise valid input, computed and not rejected.
C8_Witness ==
    /\ EhRecalque
    /\ req.Cr > req.Cc
    /\ ~AlgumValorForaDoDominio(req)
    /\ IsNone(res.erro)
    /\ RecalqueComNumeros

PreAdensadoComSucesso ==
    /\ EhRecalque
    /\ IsNone(res.erro)
    /\ ~RPAProximoDeUm(req.tensao_efetiva_inicial, req.tensao_pre_adensamento)
    /\ req.tensao_pre_adensamento > req.tensao_efetiva_inicial

\* C9: for a preconsolidated soil the strain of the crossing formula, taken at a
\* final stress equal to the preconsolidation stress, is the strain of the pure
\* recompression formula there; and the strain the function returns at that point
\* is that common value.
C9_ContinuidadeEmSigmaVm ==
    PreAdensadoComSucesso =>
        /\ DeformacaoDoisTrechos(req.Cr, req.Cc, req.indice_vazios_inicial,
                                 req.tensao_efetiva_inicial, req.tensao_pre_adensamento,
                                 req.tensao_pre_adensamento)
           = DeformacaoUmTrecho(req.Cr, req.indice_vazios_inicial,
                                req.tensao_efetiva_inicial, req.tensao_pre_adensamento)
        /\ (req.tensao_efetiva_inicial + req.acrescimo_tensao = req.tensao_pre_adensamento
            => Val(res.deformacao_volumetrica)
               = RoundDiv(DeformacaoDoisTrechos(req.Cr, req.Cc, req.indice_vazios_inicial,
                                                req.tensao_efetiva_inicial,
                                                req.tensao_pre_adensamento,
                                                req.tensao_pre_adensamento), 100))

\* C9 witness: a preconsolidated soil loaded exactly up to its preconsolidation
\* stress, with a strain > 0.
C9_Witness ==
    /\ PreAdensadoComSucesso
    /\ req.tensao_efetiva_inicial + req.acrescimo_tensao = req.tensao_pre_adensamento
    /\ req.Cc # req.Cr
    /\ Val(res.deformacao_volumetrica) > 0

EhTempo == op = "tempo_adensamento"

TempoSemNumeros ==
    /\ IsNone(res.tempo_calculado)
    /\ IsNone(res.recalque_no_tempo)
    /\ IsNone(res.grau_adensamento_medio_calculado)
    /\ IsNone(res.fator_tempo)

TempoComNumeros ==
    /\ ~IsNone(res.tempo_calculado)
    /\ ~IsNone(res.recalque_no_tempo)
    /\ ~IsNone(res.grau_adensamento_medio_calculado)
    /\ ~IsNone(res.fator_tempo)

\* the inputs C10 lists as rejected (the degree in units of 1e-3 %)
TempoEntradaRejeitada(dados) ==
    \/ ~IsNone(dados.tempo) /\ ~IsNone(dados.grau_adensamento_medio)
    \/ IsNone(dados.tempo) /\ IsNone(dados.grau_adensamento_medio)
    \/ /\ ~IsNone(dados.grau_adensamento_medio)
       /\ \/ Val(dados.grau_adensamento_medio) < 0
          \/ Val(dados.grau_adensamento_medio) > 100000
    \/ ~IsNone(dados.tempo) /\ Val(dados.tempo) < 0
    \/ dados.recalque_total_primario <= 0
    \/ dados.coeficiente_adensamento <= 0
    \/ dados.altura_drenagem <= 0

ConsultaPorGrau ==
    /\ EhTempo
    /\ IsNone(req.tempo)
    /\ ~IsNone(req.grau_adensamento_medio)
    /\ req.recalque_total_primario > 0
    /\ req.coeficiente_adensamento > 0
    /\ req.altura_drenagem > 0

ConsultaPorTempo ==
    /\ EhTempo
    /\ IsNone(req.grau_adensamento_medio)
    /\ ~IsNone(req.tempo)
    /\ Val(req.tempo) > 0
    /\ req.recalque_total_primario > 0
    /\ req.coeficiente_adensamento > 0
    /\ req.altura_drenagem > 0

\* the time factor of a query by time: Cv * tempo / Hd^2 (line 98), in 1e-6
FatorTempoDaConsulta ==
    RoundDiv(req.coeficiente_adensamento * Val(req.tempo) * 100,
             req.altura_drenagem * req.altura_drenagem)

\* C12: the regimes meet at their boundary.  For a target degree from 60 % to
\* 60.01 % the time factor is within 1e-3 of 0.283, and for a time factor from
\* 0.283 to 0.2832 the degree is within 0.1 of 60 %: at the boundary itself and in
\* the upper regime just beyond it.
C12_RegimesContinuos ==
    /\ (/\ ConsultaPorGrau
        /\ Val(req.grau_adensamento_medio) >= 60000
        /\ Val(req.grau_adensamento_medio) <= 60010)
       => Abs(Val(calcular_Tv_de_Uz(Val(req.grau_adensamento_medio))) - 283000) <= 1000
    /\ (/\ ConsultaPorTempo
        /\ FatorTempoDaConsulta >= 283000
        /\ FatorTempoDaConsulta <= 283200)
       => Abs(Val(calcular_Uz_de_Tv(FatorTempoDaConsulta)) - 60000) <= 100

\* C13: round trip.  For every Uz in [0, 100) the inverse mapping applied to the
\* time factor of Uz returns Uz within 0.01 %, and it computes it in the regime
\* the forward mapping used (lower for Uz <= 60 %, upper above; a degree the
\* forward mapping takes for 100 % has the time factor infinity and comes back
\* as 100 %).
C13_IdaEVolta ==
    (op = "Uz_de_Tv" /\ req[1] >= 0 /\ req[1] < 100000) =>
        /\ ~IsNone(res)
        /\ Abs(Val(res) - req[1]) <= 10
        /\ IF ProximoDeCem(req[1]) THEN req[2] = INF
           ELSE (req[1] <= 60000) <=> (req[2] <= 283000)

\* C13 witness: a degree just above 60 %, sent through the upper regime both ways
\* and returned.
C13_Witness ==
    /\ op = "Uz_de_Tv"
    /\ req[1] > 60000 /\ req[1] < 60010
    /\ req[2] > 283000
    /\ ~IsNone(res)
    /\ Abs(Val(res) - req[1]) <= 10

\* Scenario D: total settlement 0.5, Cv = 2, Hd = 3, target degree 60 %
CenarioD ==
    /\ EhTempo
    /\ req = [recalque_total_primario |-> 50000, coeficiente_adensamento |-> 2,
              altura_drenagem |-> 3, tempo |-> None,
              grau_adensamento_medio |-> Some(60000)]

\* C14: Scenario D returns the time factor 0.283 to three decimals, a time within
\* 0.002 of 1.2735 (what three decimals of the time factor leave open, times
\* Hd^2 / Cv = 4.5) and the settlement 0.3, with no error.
C14_CenarioD ==
    CenarioD =>
        /\ IsNone(res.erro)
        /\ RoundDiv(Val(res.fator_tempo), 10) = 283
        /\ Abs(2 * Val(res.tempo_calculado) - 2547) <= 4
        /\ res.recalque_no_tempo = Some(3000)

\* C14 witness: Scenario D answered.
C14_Witness ==
    /\ CenarioD
    /\ IsNone(res.erro)
    /\ res.grau_adensamento_medio_calculado = Some(6000)
    /\ res.fator_tempo = Some(2827)
    /\ res.tempo_calculado = Some(1272)

\* ------------------------------------------------------------ claims: all four operations

\* exactly one of a and b
OuExclusivo(a, b) == (a \/ b) /\ ~(a /\ b)

\* C15: each of the four core operations returns either an error message with
\* no numeric result (an empty point list, every numeric field null) or numeric
\* results with no error message: never both, never neither.  Every path of an
\* operation, the handlers of its exceptions included, ends in such a result.
C15_ErroOuResultado ==
    /\ EhTensoes =>
          OuExclusivo(~IsNone(res.erro) /\ Len(res.pontos_calculo) = 0,
                      IsNone(res.erro) /\ Len(res.pontos_calculo) > 0)
    /\ EhAcrescimo =>
          OuExclusivo(~IsNone(res.erro) /\ IsNone(res.delta_sigma_v),
                      IsNone(res.erro) /\ ~IsNone(res.delta_sigma_v))
    /\ EhRecalque =>
          OuExclusivo(~IsNone(res.erro) /\ RecalqueSemNumeros,
                      IsNone(res.erro) /\ RecalqueComNumeros)
    /\ EhTempo =>
          OuExclusivo(~IsNone(res.erro) /\ TempoSemNumeros,
                      IsNone(res.erro) /\ TempoComNumeros)

\* C15 witness: a point-load request whose formula is undefined (NaN), answered
\* with the method, the error message and no value.
C15_Witness ==
    /\ EhAcrescimo
    /\ req.ponto_interesse.z > 0
    /\ ~IsNone(res.metodo)
    /\ ~IsNone(res.erro)
    /\ IsNone(res.delta_sigma_v)

\* what the operation returns when it runs alone on the input it was called with
ResultadoSozinho(chamada) ==
    CASE chamada.operacao = "tensoes_geostaticas" ->
            calcular_tensoes_geostaticas(chamada.original)
      [] chamada.operacao = "acrescimo_tensoes" ->
            calcular_acrescimo_tensoes(chamada.original)
      [] chamada.operacao = "recalque_adensamento" ->
            calcular_recalque_adensamento(chamada.original)
      [] chamada.operacao = "tempo_adensamento" ->
            calcular_tempo_adensamento(chamada.original)

\* C16: under every interleaving of two invocations, each invocation returns what
\* it returns when run alone on its input, no invocation changes its input
\* object, and the influence-factor table of the circular-load branch, once
\* built, keeps its contents.
C16_SemEstadoCompartilhado ==
    /\ \A p \in Invocacoes :
          /\ req[p].dados = req[p].original
          /\ op[p].pc = "fim" => op[p].retorno = Some(ResultadoSozinho(req[p]))
    /\ \A e \in Invocacoes : res[e].abaco_data \in {None, Some(AbacoData)}

\* C16 witness: two profile calculations on different inputs overlapped, and both
\* returned a profile.
C16_Witness ==
    /\ \A p \in Invocacoes :
          /\ req[p].operacao = "tensoes_geostaticas"
          /\ op[p].pc = "fim"
          /\ op[p].sobreposta
          /\ IsNone(Val(op[p].retorno).erro)
    /\ req[1].dados # req[2].dados

\* ------------------------------------------------------------ claims: hydraulic flow

EhFluxo == op = "analisar_fluxo"

\* an upward flow whose last layer is at least as heavy as water, under a
\* positive applied gradient
FluxoAscendenteComGradiente ==
    /\ EhFluxo
    /\ TextoPresente(req.direcao_fluxo_vertical)
    /\ Lower(Val(req.direcao_fluxo_vertical)) = "ascendente"
    /\ ~IsNone(req.camadas[Len(req.camadas)].gamma_sat)
    /\ Val(req.camadas[Len(req.camadas)].gamma_sat) >= req.peso_especifico_agua
    /\ ~IsNone(req.gradiente_hidraulico_aplicado)
    /\ Val(req.gradiente_hidraulico_aplicado) > 0

\* the stresses under flow are requested and some layer has no gamma_sat
TensoesSemGammaSat ==
    /\ ListaPresente(req.profundidades_tensao)
    /\ ~IsNone(req.profundidade_na_entrada)
    /\ ~IsNone(req.profundidade_na_saida)
    /\ \E j \in 1..Len(req.camadas) : IsNone(req.camadas[j].gamma_sat)

\* C17: an upward flow request whose last layer has gamma_sat >= gamma_w and
\* whose applied gradient is positive, and that raises no ValueError, returns
\* fs_liquefacao finite and equal (to the 2 places of the output) to the critical
\* gradient over the applied gradient, and returns no error when no requested
\* analysis lacks its data
C17_FsFinitoSemErro ==
    (FluxoAscendenteComGradiente /\ res.status = 200) =>
        LET saida == Val(res.body)
            i == Val(req.gradiente_hidraulico_aplicado)
            icrit == 10000 * (Val(req.camadas[Len(req.camadas)].gamma_sat)
                              - req.peso_especifico_agua)
        IN  /\ ~IsNone(saida.fs_liquefacao)
            /\ Val(saida.fs_liquefacao) # INF
            /\ Abs(10 * i * Val(saida.fs_liquefacao) - icrit) <= 10 * i
            /\ (~TensoesSemGammaSat => IsNone(saida.erro))

\* C17: the part about fs_liquefacao alone, which the code satisfies
C17_SoFatorDeSeguranca ==
    (FluxoAscendenteComGradiente /\ res.status = 200) =>
        LET saida == Val(res.body)
            i == Val(req.gradiente_hidraulico_aplicado)
            icrit == 10000 * (Val(req.camadas[Len(req.camadas)].gamma_sat)
                              - req.peso_especifico_agua)
        IN  /\ ~IsNone(saida.fs_liquefacao)
            /\ Val(saida.fs_liquefacao) # INF
            /\ Abs(10 * i * Val(saida.fs_liquefacao) - icrit) <= 10 * i

\* ------------------------------------------------------------ claims: geostatic profile, total stress

PerfilCalculado == EhTensoes /\ IsNone(res.erro)

\* a unit weight that is not needed counts for nothing
PesoOuZero(g) == IF IsNone(g) THEN 0 ELSE Val(g)

\* length of the interval [a, b], 0 when it is empty
Trecho(a, b) == Max(0, b - a)

RECURSIVE PesoDoSoloAcima(_, _, _, _)
\* weight of the soil of layers 1..k above depth d: gama_nat times the thickness
\* above the water table plus gama_sat times the thickness below it
PesoDoSoloAcima(camadas, na, d, k) ==
    IF k = 0 THEN 0
    ELSE LET z_topo == SomaEspessuras(camadas, k - 1)
             z_base == SomaEspessuras(camadas, k)
         IN  PesoDoSoloAcima(camadas, na, d, k - 1)
             + PesoOuZero(camadas[k].gama_nat) * Trecho(z_topo, Min(z_base, Min(d, na)))
             + PesoOuZero(camadas[k].gama_sat) * Trecho(Max(z_topo, na), Min(z_base, d))

\* the largest unit weight of a request, for the effect of rounding a depth
MaiorPeso ==
    LET pesos == {Abs(PesoOuZero(req.camadas[j].gama_nat)) : j \in 1..Len(req.camadas)}
                 \cup {Abs(PesoOuZero(req.camadas[j].gama_sat)) : j \in 1..Len(req.camadas)}
    IN  CHOOSE m \in pesos : \A w \in pesos : w <= m

\* every emitted depth carries the weight of the soil above it, to the rounding
\* of the reported depth and stress (4 places each)
TotalEhPesoAcima ==
    \A k \in 1..Len(Pontos) :
        Abs(Pontos[k].tensao_total_vertical
            - PesoDoSoloAcima(req.camadas, req.profundidade_na, Pontos[k].profundidade,
                              Len(req.camadas)))
          <= 5 * MaiorPeso + 10

\* the profile has a point exactly at the water table, with pore pressure 0 and
\* the stress at the top of layer i plus gama_nat times the span above
TemPontoNoNA(i) ==
    \E k \in 1..Len(Pontos) :
        /\ Pontos[k].profundidade = req.profundidade_na
        /\ Pontos[k].pressao_neutra = 0
        /\ Pontos[k].tensao_total_vertical =
               Round4(PesoDoSoloAcima(req.camadas, req.profundidade_na,
                                      SomaEspessuras(req.camadas, i - 1), i - 1)
                      + Val(req.camadas[i].gama_nat)
                        * (req.profundidade_na - SomaEspessuras(req.camadas, i - 1)))

\* the water table lies strictly inside layer i
NADentroDaCamada(i) ==
    /\ SomaEspessuras(req.camadas, i - 1) < req.profundidade_na
    /\ req.profundidade_na < SomaEspessuras(req.camadas, i)

\* the same, and farther from the top and the base of the layer than the
\* resolution of the reported depths (half of 1e-4 m)
NABemDentroDaCamada(i) ==
    /\ SomaEspessuras(req.camadas, i - 1) + 5 < req.profundidade_na
    /\ req.profundidade_na + 5 < SomaEspessuras(req.camadas, i)

\* the water table lies on the surface or on the base of a layer
NANaInterface ==
    \E i \in 0..Len(req.camadas) : SomaEspessuras(req.camadas, i) = req.profundidade_na

PressaoAcimaDoNA(k) ==
    LET altura == req.profundidade_na - Pontos[k].profundidade
    IN  IF altura <= req.altura_capilar
        THEN Abs(Pontos[k].pressao_neutra + altura * req.peso_especifico_agua)
               <= 5 * req.peso_especifico_agua + 10
        ELSE Abs(Pontos[k].pressao_neutra) <= 5 * req.peso_especifico_agua + 10

\* C19: every point above the water table, the surface point included, has pore
\* pressure -(NA - d) * gama_w when NA - d <= altura_capilar, and 0 otherwise.
C19_SuccaoCapilar ==
    PerfilCalculado =>
        \A k \in 1..Len(Pontos) :
            Pontos[k].profundidade < req.profundidade_na => PressaoAcimaDoNA(k)

\* C19 without the surface point: the points below the surface follow the rule
C19_AbaixoDaSuperficie ==
    PerfilCalculado =>
        \A k \in 2..Len(Pontos) :
            Pontos[k].profundidade < req.profundidade_na => PressaoAcimaDoNA(k)

\* ------------------------------------------------------------ claims: geostatic profile, horizontal stress

\* the layer whose span holds depth d, the lower one when d is an interface
\* (the last layer for the base of the profile)
CamadaAbaixo(d) ==
    IF d >= SomaEspessuras(req.camadas, Len(req.camadas)) THEN Len(req.camadas)
    ELSE CHOOSE i \in 1..Len(req.camadas) :
             /\ SomaEspessuras(req.camadas, i - 1) <= d
             /\ d < SomaEspessuras(req.camadas, i)

\* the layer whose span holds depth d, the upper one when d is an interface
\* (the first layer for the surface)
CamadaAcima(d) ==
    IF d <= 0 THEN 1
    ELSE IF d > SomaEspessuras(req.camadas, Len(req.camadas)) THEN Len(req.camadas)
    ELSE CHOOSE i \in 1..Len(req.camadas) :
             /\ SomaEspessuras(req.camadas, i - 1) < d
             /\ d <= SomaEspessuras(req.camadas, i)

\* the horizontal stress of point k is its vertical effective stress times the
\* Ko of layer i, to the rounding of the reported values
HorizontalComKo(k, i) ==
    Abs(Pontos[k].tensao_efetiva_horizontal
        - VezesKo(Pontos[k].tensao_efetiva_vertical, req.camadas[i].Ko)) <= 10

\* C20: the effective horizontal stress of every point is its effective vertical
\* stress times the Ko of the layer that holds its depth, the layer immediately
\* below for a point on an interface.
C20_KoDaCamadaAbaixo ==
    PerfilCalculado =>
        \A k \in 1..Len(Pontos) : HorizontalComKo(k, CamadaAbaixo(Pontos[k].profundidade))

\* C20 with the layer above: what the profile holds at an interface is the Ko
\* of the layer that ends there
C20_KoDaCamadaAcima ==
    PerfilCalculado =>
        \A k \in 1..Len(Pontos) : HorizontalComKo(k, CamadaAcima(Pontos[k].profundidade))

\* ------------------------------------------------------------ claims: stress increment, position of the load

\* the request with the point and every load it carries moved by (dx, dy)
Deslocado(dados, dx, dy) ==
    [dados EXCEPT
        !.ponto_interesse = [@ EXCEPT !.x = @ + dx, !.y = @ + dy],
        !.carga_pontual = IF IsNone(@) THEN @
                          ELSE Some([Val(@) EXCEPT !.x = @ + dx, !.y = @ + dy]),
        !.carga_faixa = IF IsNone(@) THEN @
                        ELSE Some([Val(@) EXCEPT !.centro_x = @ + dx]),
        !.carga_circular = IF IsNone(@) THEN @
                           ELSE Some([Val(@) EXCEPT !.centro_x = @ + dx,
                                                    !.centro_y = @ + dy])]

\* the result of the request is the result of every shifted request
MesmoResultadoDeslocado ==
    \A dx \in {-3, 3} : \A dy \in {0, 4} :
        calcular_acrescimo_tensoes(Deslocado(req, dx, dy)) = res

\* C21: for the three load types the increment depends on the horizontal
\* position of the point only relative to the load: moving the point and the
\* load by the same horizontal offset leaves the result unchanged.
C21_InvarianteATranslacao == EhAcrescimo => MesmoResultadoDeslocado

\* C21 for the point load alone, whose formula takes the distance to (x, y) of
\* the load
C21_SoCargaPontual ==
    (EhAcrescimo /\ Lower(req.tipo_carga) = "pontual") => MesmoResultadoDeslocado

\* ------------------------------------------------------------ claims: stress increment, Love's chart

\* a request for a circular load that was answered with a number
CircularCalculado ==
    /\ EhAcrescimo
    /\ Lower(req.tipo_carga) = "circular"
    /\ ~IsNone(res.delta_sigma_v)

\* the distance of the point of the request to the origin, times 1000
DistanciaRadial ==
    ISqrt((req.ponto_interesse.x * req.ponto_interesse.x
           + req.ponto_interesse.y * req.ponto_interesse.y) * 1000000)

\* the factor (1e-6) a curve gives at r / R: the end values at or beyond the
\* first and the last tabulated r/R, the chord between two columns otherwise
FatorNaCurva(curva, r_milli, R) ==
    IF r_milli >= 1500 * R THEN curva[6]
    ELSE IF r_milli <= 0 THEN curva[1]
    ELSE LET j == CHOOSE i \in 1..5 :
                      AbacoRR[i] * R <= r_milli /\ r_milli <= AbacoRR[i + 1] * R
         IN  curva[j] + RoundDiv((r_milli - AbacoRR[j] * R) * (curva[j + 1] - curva[j]),
                                 (AbacoRR[j + 1] - AbacoRR[j]) * R)

\* a tabulated curve, its factors in 1e-6
CurvaTabulada(k) == [i \in 1..6 |-> AbacoData[k][i] * 10000]

\* the blend of the curves of keys a < b at 2 z / R strictly between them,
\* weighted by the position of z / R between the keys
CurvaEntre(a, b, z, R) ==
    [i \in 1..6 |->
        RoundDiv((AbacoData[a][i] * (b * R - 2 * z) + AbacoData[b][i] * (2 * z - a * R))
                 * 10000, (b - a) * R)]

\* the increment the request gets from a curve
IncrementoDaCurva(curva) ==
    RoundDiv(Val(req.carga_circular).intensidade
             * FatorNaCurva(curva, DistanciaRadial, Val(req.carga_circular).raio), 100)

\* C22: the chart never extrapolates.  At or outside the first and the last
\* tabulated z/R the boundary curve is used unchanged; strictly between two
\* adjacent keys the curve is the linear blend of the two; at or beyond the first
\* and the last tabulated r/R the factor is the end value; so the factor stays
\* within the range of the table (0.08 to 0.91).
C22_AbacoSemExtrapolacao ==
    CircularCalculado =>
        LET z == req.ponto_interesse.z
            R == Val(req.carga_circular).raio
            p == Val(req.carga_circular).intensidade
            delta == Val(res.delta_sigma_v)
        IN  /\ 2 * z <= R => delta = IncrementoDaCurva(CurvaTabulada(1))
            /\ 2 * z >= 6 * R => delta = IncrementoDaCurva(CurvaTabulada(6))
            /\ \A ab \in {<<1, 2>>, <<2, 3>>, <<3, 4>>, <<4, 6>>} :
                   (ab[1] * R < 2 * z /\ 2 * z < ab[2] * R)
                   => delta = IncrementoDaCurva(CurvaEntre(ab[1], ab[2], z, R))
            /\ 800 * p <= delta /\ delta <= 9100 * p

\* C22 witness: z/R below the first key with r/R strictly inside the table.
C22_Witness ==
    /\ CircularCalculado
    /\ 2 * req.ponto_interesse.z < Val(req.carga_circular).raio
    /\ DistanciaRadial > 0
    /\ DistanciaRadial < 1500 * Val(req.carga_circular).raio
    /\ Val(res.delta_sigma_v) < 9100 * Val(req.carga_circular).intensidade

\* z/R strictly between two keys and r/R strictly between two columns is answered
CasoBilinear ==
    /\ CircularCalculado
    /\ Val(req.carga_circular).raio < 2 * req.ponto_interesse.z
    /\ req.ponto_interesse.z < Val(req.carga_circular).raio
    /\ DistanciaRadial > 500 * Val(req.carga_circular).raio
    /\ DistanciaRadial < 750 * Val(req.carga_circular).raio

\* ------------------------------------------------------------ claims: stress increment, the undefined value

\* a point-load request that passes the depth check
PontualComProfundidade ==
    /\ EhAcrescimo
    /\ Lower(req.tipo_carga) = "pontual"
    /\ ~IsNone(req.carga_pontual)
    /\ req.ponto_interesse.z > 0

\* C23: a point-load request whose z passes the depth check (z > EPSILON) gets
\* a numeric delta_sigma_v and never the error of the undefined value.
C23_PontualSempreNumerico ==
    PontualComProfundidade => (~IsNone(res.delta_sigma_v) /\ IsNone(res.erro))

\* C23 away from the load's axis by more than sqrt(EPSILON): there the
\* denominator r^2 + z^2 is above EPSILON whatever the depth
C23_ForaDoEixo ==
    (/\ PontualComProfundidade
     /\ (req.ponto_interesse.x - Val(req.carga_pontual).x)
        * (req.ponto_interesse.x - Val(req.carga_pontual).x)
        + (req.ponto_interesse.y - Val(req.carga_pontual).y)
          * (req.ponto_interesse.y - Val(req.carga_pontual).y) > EPSILON_AREA)
    => (~IsNone(res.delta_sigma_v) /\ IsNone(res.erro))

\* ------------------------------------------------------------ claims: settlement, the regimes

RecalqueCalculado == EhRecalque /\ IsNone(res.erro)

RotuloNormalmenteAdensado == "Normalmente Adensado (RPA ~ 1)"

RotuloPreAdensado == "Pre-Adensado (RPA > 1)"

RotuloSubAdensado == "Sub-Adensado (RPA < 1) - Calculo como Normalmente Adensado"

\* the strain of the normally consolidated formula, as it is returned (5 places)
DeformacaoVirgem ==
    RoundDiv(DeformacaoUmTrecho(req.Cc, req.indice_vazios_inicial,
                                req.tensao_efetiva_inicial,
                                req.tensao_efetiva_inicial + req.acrescimo_tensao), 100)

\* the regime of a computed settlement for a band from 0.9 to 1.1 around OCR = 1,
\* the upper end of the band belonging to it or not
RegimePelaFaixa(comLimiteSuperior) ==
    LET s0 == req.tensao_efetiva_inicial
        sm == req.tensao_pre_adensamento
        estado == Val(res.estado_adensamento)
        normal == /\ 9 * s0 <= 10 * sm
                  /\ IF comLimiteSuperior THEN 10 * sm <= 11 * s0 ELSE 10 * sm < 11 * s0
    IN  /\ estado \in {RotuloNormalmenteAdensado, RotuloPreAdensado, RotuloSubAdensado}
        /\ estado = RotuloNormalmenteAdensado <=> normal
        /\ estado = RotuloPreAdensado <=> (~normal /\ sm > s0)
        /\ estado = RotuloSubAdensado <=> (~normal /\ sm < s0)
        /\ estado # RotuloPreAdensado => Val(res.deformacao_volumetrica) = DeformacaoVirgem

\* C24: every valid input falls in exactly one regime by OCR: normally
\* consolidated for |OCR - 1| <= 0.1, preconsolidated only for OCR > 1.1,
\* underconsolidated only for OCR < 0.9; the normally consolidated and the
\* underconsolidated regimes use strain = Cc/(1+e0) * log10(final/initial).
C24_RegimesPorOCR == RecalqueCalculado => RegimePelaFaixa(TRUE)

\* C24 with the band as line 51 decides it: 0.9 <= OCR < 1.1
C24_FaixaSemLimiteSuperior == RecalqueCalculado => RegimePelaFaixa(FALSE)

\* ------------------------------------------------------------ claims: settlement, the state label

\* the request with the same soil and an increment that takes the final stress
\* beyond the preconsolidation stress
ComIncrementoAlemDeSigmaVm(dados) ==
    [dados EXCEPT !.acrescimo_tensao =
        2 * (dados.tensao_pre_adensamento - dados.tensao_efetiva_inicial)]

\* C25: the state label identifies the formula that produced the strain: a
\* preconsolidated soil that stays within the recompression range and the same
\* soil taken into virgin compression receive different labels.
C25_RotulosDistintos ==
    (PreAdensadoComSucesso
     /\ req.tensao_efetiva_inicial + req.acrescimo_tensao <= req.tensao_pre_adensamento)
    => calcular_recalque_adensamento(ComIncrementoAlemDeSigmaVm(req)).estado_adensamento
         # res.estado_adensamento

\* ------------------------------------------------------------ claims: consolidation time, monotonicity

\* the times (1e-4) the answer of a query by time is compared with
TemposComparados == {4, 5000, 12726, 12730, 12734, 12736, 12740, 13000, 50000, 2000000}

\* the answer to the query of the request asked for time t2
RespostaNoTempo(t2) == calcular_tempo_adensamento([req EXCEPT !.tempo = Some(t2)])

\* the time factor (1e-6) of the soil of the request at time t: Cv * t / Hd^2
FatorTempoEm(t) ==
    RoundDiv(req.coeficiente_adensamento * t * 100,
             req.altura_drenagem * req.altura_drenagem)

\* degree and settlement at t2 are not below the ones of the request
NaoMenorEm(t2) ==
    /\ Val(RespostaNoTempo(t2).grau_adensamento_medio_calculado)
         >= Val(res.grau_adensamento_medio_calculado)
    /\ Val(RespostaNoTempo(t2).recalque_no_tempo) >= Val(res.recalque_no_tempo)

\* C26: for a fixed soil the degree of consolidation and the settlement
\* returned for a time are non-decreasing in that time, also for times on either
\* side of the regime boundary Tv = 0.283.
C26_MonotonoNoTempo ==
    (ConsultaPorTempo /\ IsNone(res.erro)) =>
        \A t2 \in TemposComparados : t2 >= Val(req.tempo) => NaoMenorEm(t2)

\* C26 for two times on the same side of Tv = 0.283: each regime alone is
\* non-decreasing
C26_DentroDeCadaRegime ==
    (ConsultaPorTempo /\ IsNone(res.erro)) =>
        \A t2 \in TemposComparados :
            (/\ t2 >= Val(req.tempo)
             /\ FatorTempoEm(t2) <= 283000 <=> FatorTempoEm(Val(req.tempo)) <= 283000)
            => NaoMenorEm(t2)

\* ------------------------------------------------------------ claims: consolidation time, ranges

TempoCalculado == EhTempo /\ IsNone(res.erro)

TempoZeroRespondido ==
    /\ TempoCalculado
    /\ req.tempo = Some(0)
    /\ res.recalque_no_tempo = Some(0)

\* a target of 100 % is answered with the whole settlement, rounded up
CemPorCentoArredondadoParaCima ==
    /\ TempoCalculado
    /\ req.grau_adensamento_medio = Some(100000)
    /\ 10 * Val(res.recalque_no_tempo) > req.recalque_total_primario

\* ------------------------------------------------------------ claims: settlement, sign and monotonicity

\* the answer for the soil of the request under the stress increment d
RespostaComAcrescimo(d) ==
    calcular_recalque_adensamento([req EXCEPT !.acrescimo_tensao = d])

\* C28: for every valid input, in every regime, strain and settlement are
\* >= 0, both are 0 when the stress increment is 0, and with the other inputs
\* fixed the strain does not decrease when the increment grows, also when the
\* final stress passes the preconsolidation stress.
C28_DeformacaoNaoNegativaEMonotona ==
    RecalqueCalculado =>
        /\ Val(res.deformacao_volumetrica) >= 0
        /\ Val(res.recalque_total_primario) >= 0
        /\ req.acrescimo_tensao = 0 =>
              /\ Val(res.deformacao_volumetrica) = 0
              /\ Val(res.recalque_total_primario) = 0
        /\ \A d \in {0, 50, 100, 150, 151, 400} :
               d >= req.acrescimo_tensao =>
                   /\ IsNone(RespostaComAcrescimo(d).erro)
                   /\ Val(RespostaComAcrescimo(d).deformacao_volumetrica)
                        >= Val(res.deformacao_volumetrica)

\* C28 witness: a preconsolidated soil with Cr > Cc at the preconsolidation
\* stress, with a positive strain; the larger increments take it beyond.
C28_Witness ==
    /\ PreAdensadoComSucesso
    /\ req.Cr > req.Cc
    /\ req.tensao_efetiva_inicial + req.acrescimo_tensao = req.tensao_pre_adensamento
    /\ Val(res.deformacao_volumetrica) > 0
    /\ Val(RespostaComAcrescimo(150).deformacao_volumetrica)
         > Val(res.deformacao_volumetrica)

\* ------------------------------------------------------------ claims: hydraulic flow, below the last layer

\* a flow request answered with the stresses under flow
TensoesDeFluxoCalculadas ==
    /\ EhFluxo
    /\ res.status = 200
    /\ ~IsNone(Val(res.body).pontos_tensao_fluxo)

PontosDeFluxo == Val(Val(res.body).pontos_tensao_fluxo)

RECURSIVE PesoSaturadoAte(_, _)
\* sum of gamma_sat * thickness over layers 1..k (in hundredths)
PesoSaturadoAte(camadas, k) ==
    IF k = 0 THEN 0
    ELSE PesoSaturadoAte(camadas, k - 1) + Val(camadas[k].gamma_sat) * camadas[k].espessura

\* C29: a requested depth below the bottom of the last layer is computed as
\* if it were at the base of the last layer: its total vertical stress is the sum
\* of gamma_sat * thickness over all layers, each layer counted once, and so is
\* the same for every such depth.
C29_AbaixoDaUltimaCamada ==
    TensoesDeFluxoCalculadas =>
        \A k \in 1..Len(PontosDeFluxo) :
            PontosDeFluxo[k].profundidade > SomaEspessurasTodas(req.camadas, 1)
            => PontosDeFluxo[k].tensao_total_vertical
                 = 10 * PesoSaturadoAte(req.camadas, Len(req.camadas))

\* C29, its last part alone: every depth below the last layer gets one and the
\* same total stress
C29_MesmoValorAbaixo ==
    TensoesDeFluxoCalculadas =>
        \A k, j \in 1..Len(PontosDeFluxo) :
            (/\ PontosDeFluxo[k].profundidade > SomaEspessurasTodas(req.camadas, 1)
             /\ PontosDeFluxo[j].profundidade > SomaEspessurasTodas(req.camadas, 1))
            => PontosDeFluxo[k].tensao_total_vertical = PontosDeFluxo[j].tensao_total_vertical

\* ------------------------------------------------------------ claims: hydraulic flow, the no-analysis error

NenhumaAnalise == Some("Nenhuma analise de fluxo solicitada ou dados insuficientes.")

\* the answer carries the result of at least one of the four analyses
AlgumaAnaliseFeita ==
    /\ EhFluxo
    /\ res.status = 200
    /\ \/ ~IsNone(Val(res.body).permeabilidade_equivalente)
       \/ ~IsNone(Val(res.body).velocidade_descarga)
       \/ ~IsNone(Val(res.body).gradiente_critico)
       \/ ~IsNone(Val(res.body).pontos_tensao_fluxo)

\* C30: the error "no flow analysis requested or insufficient data" is
\* reported only when none of the analyses was performed: whenever the equivalent
\* permeability, the discharge velocity, the critical gradient or the stresses
\* under flow were computed, a computed value of 0 included, that error is not
\* set.
C30_ErroSoSemAnalise ==
    AlgumaAnaliseFeita => Val(res.body).erro # NenhumaAnalise

\* C30, for results that are not zero: an answer with a non-zero permeability,
\* velocity or critical gradient, or with a non-empty list of stress points,
\* does not carry the error
C30_ResultadoNaoNulo ==
    /\ EhFluxo
    /\ res.status = 200
    /\ \/ Verdadeiro(Val(res.body).permeabilidade_equivalente)
       \/ Verdadeiro(Val(res.body).velocidade_descarga)
       \/ Verdadeiro(Val(res.body).gradiente_critico)
       \/ ListaPresente(Val(res.body).pontos_tensao_fluxo)
    => Val(res.body).erro # NenhumaAnalise

\* C30, the converse: an answer without any of the four results and without
\* another error carries the error
C30_SemAnaliseTemErro ==
    /\ EhFluxo
    /\ res.status = 200
    /\ IsNone(Val(res.body).permeabilidade_equivalente)
    /\ IsNone(Val(res.body).velocidade_descarga)
    /\ IsNone(Val(res.body).gradiente_critico)
    /\ IsNone(Val(res.body).pontos_tensao_fluxo)
    => ~IsNone(Val(res.body).erro)

====
